---- MODULE Spec2Model ----
(***************************************************************************)
(* Task-management REST API: the task store (TaskService), the mounted     *)
(* task router (api/routers/tasks.py) and the request pipeline in front    *)
(* of it (main.py, middleware/auth_middleware.py).                         *)
(*                                                                         *)
(* Three layers are modelled, each translated from its source:             *)
(*   "svc"     a TaskService method called with a current_user,            *)
(*   "handler" a route function of api/routers/tasks.py called with the    *)
(*             arguments FastAPI resolved for it (user_id, task_id, body,  *)
(*             current_user),                                              *)
(*   "http"    a request entering the mounted application: route matching  *)
(*             in registration order, the current-user dependency, path    *)
(*             parameter validation, then the route function.              *)
(* Beside them stand NotificationService.schedule_reminders_for_task and   *)
(* the rate limiter of middleware/rate_limiter.py ("rate").                *)
(***************************************************************************)
EXTENDS Integers, Sequences, FiniteSets, TLC

VARIABLES
    tasks,      \* the tasks table: task id -> row
    nextId,     \* number of rows ever inserted (ids are fresh, never reused)
    now,        \* datetime.utcnow(), in abstract ticks
    log,        \* the most recent `depth` calls with their outcomes (history)
    depth,      \* how many calls the history keeps (fixed by Init)
    requests,   \* RateLimiter.requests: (ip, endpoint pattern) -> timestamps
    inflight,   \* the requests inside RateLimitMiddleware, each at its step
    users,      \* the users table: user id -> row
    cache       \* CacheService._cache: key -> (value, expiry time)

vars == <<tasks, nextId, now, log, depth, requests, inflight, users, cache>>

----------------------------------------------------------------------------
(* Bounds *)

NumUsers == 2           \* users holding tasks
MaxTasks == 2           \* rows ever inserted in one behaviour
MaxTime == 1            \* last clock tick
TripTasks == 1          \* rows of the stores the round-trip runs start from
PageTasks == 2          \* rows of the stores the paging runs start from
HttpTasks == 1          \* rows of the stores the HTTP runs start from
CallTasks == 2          \* rows of the stores the single-call runs start from
ListTasks == 2          \* rows of the stores the list runs start from
PurgeTasks == 3         \* rows of the stores the purge runs start from
UpdateTasks == 2        \* rows of the stores the update runs start from
FilterTasks == 3   \* rows of the tables the filters are tried on
SortTasks == 3     \* length of the lists that are sorted
CreateTasks == 1   \* rows stored before a create call
RemindTasks == 1   \* rows stored before a reminder is planned
RateClients == 2   \* client addresses the rate limiter sees
RateCalls == 4     \* is_allowed calls of one run
ClockSlack == 1    \* instants the clock can take after 0 and after a window
PatternUuids == 2  \* distinct UUIDs in the paths whose pattern is taken
MaxInflight == 3   \* requests inside the middleware at the same time
BusyClients == 1   \* client addresses of the simultaneous requests
TokenTime == 2     \* latest instant at which a token is presented
TzShift == 1       \* offset of the server's local time from UTC, either way
LoginUsers == 1    \* users stored before a login
Racers == 3        \* register requests in progress at once
Togglers == 2      \* toggle requests in progress at once
CacheCalls == 3    \* CacheService calls of one run
CachedCalls == 3   \* calls of a decorated function in one run
CachedTtl == 2     \* ttl given to the cached decorator

----------------------------------------------------------------------------
(* Values *)

None == -1              \* Python None / SQL NULL in an integer-valued place
NoneS == "<None>"       \* Python None in a string-valued place

Users == 1..NumUsers
GhostUser == NumUsers + 1       \* a well-formed user id that owns nothing
OwnerIds == Users \cup {GhostUser}

TaskIds == 1..MaxTasks
MissingTask == 0                \* a well-formed task id that was never stored

NoTask == [id |-> None]         \* None where a task object is expected
Found(t) == t.id # None

DefaultReminderHours == 24      \* notification_settings.get('reminder_time', 24)

DefaultNotificationSettings == "{\"reminder_enabled\": false, \"reminder_time\": null}"

\* models/task.py: the declared Python type of Task.id and Task.user_id
TaskIdType == "uuid"

\* Task(**task_data): the row a create inserts
Task(id, body, at) ==
    [id |-> id, user_id |-> body.user_id, title |-> body.title,
     description |-> body.description, is_completed |-> body.is_completed,
     priority |-> body.priority, due_date |-> body.due_date,
     version |-> 1, created_at |-> at, updated_at |-> at, deleted_at |-> None,
     notification_settings |-> DefaultNotificationSettings]

\* TaskCreate as posted; user_id is overwritten by the service
TaskCreate(title, is_completed, priority, due_date, user_id) ==
    [title |-> title, description |-> NoneS, is_completed |-> is_completed,
     priority |-> priority, due_date |-> due_date, user_id |-> user_id]

\* the fields a TaskUpdate may carry
UpdateFields == {"title", "description", "is_completed", "priority", "due_date"}

\* a TaskUpdate that keeps the keys it does not declare (extra = "allow")
TaskUpdate_extra_allowed(body) ==
    body

\* TaskUpdate(**body): the keys of the request body that TaskUpdate declares;
\* any other key is dropped
TaskUpdate(body) ==
    [f \in DOMAIN body \cap UpdateFields |-> body[f]]

\* pydantic lax-mode integer validation: the input types an `int` field takes
LaxIntInput(type) == type \in {"int", "bool", "float", "decimal", "str"}

\* schemas/task.py TaskRead = TaskResponse, model_validate(task) with
\* from_attributes: id and user_id are declared int, the row carries UUIDs
TaskRead_model_validate(task) ==
    IF LaxIntInput(TaskIdType)
    THEN [raised |-> FALSE,
          value |-> [id |-> task.id, user_id |-> task.user_id,
                     title |-> task.title, description |-> task.description,
                     status |-> "pending", version |-> task.version,
                     created_at |-> task.created_at,
                     updated_at |-> task.updated_at]]
    ELSE [raised |-> TRUE, value |-> NoTask]

----------------------------------------------------------------------------
(* Sequences *)

RECURSIVE SeqOfSet(_)
\* all enumerations of a finite set without repetition
SeqOfSet(S) ==
    IF S = {} THEN {<<>>}
    ELSE UNION {{<<x>> \o s : s \in SeqOfSet(S \ {x})} : x \in S}

\* the orders in which an unordered SELECT may deliver the table's rows
ScanOrders(store) == SeqOfSet(DOMAIN store)

Range(s) == {s[i] : i \in 1..Len(s)}

Min(a, b) == IF a < b THEN a ELSE b

\* Python s[a:b] for 0 <= a, 0 <= b
Slice(s, a, b) ==
    LET hi == Min(b, Len(s)) IN
    IF a >= hi THEN <<>> ELSE SubSeq(s, a + 1, hi)

\* SQL OFFSET skip LIMIT limit over the delivered rows
OffsetLimit(s, skip, limit) == Slice(s, skip, skip + limit)

RECURSIVE InsertSorted(_, _, _)
\* insert x, an item with its sort key, after every element that does not
\* sort strictly after it
InsertSorted(x, s, reverse) ==
    IF s = <<>> THEN <<x>>
    ELSE LET after == IF reverse THEN Head(s).key < x.key
                                 ELSE x.key < Head(s).key
         IN IF after THEN <<x>> \o s
            ELSE <<Head(s)>> \o InsertSorted(x, Tail(s), reverse)

RECURSIVE SortFrom(_, _, _)
SortFrom(s, acc, reverse) ==
    IF s = <<>> THEN acc
    ELSE SortFrom(Tail(s), InsertSorted(Head(s), acc, reverse), reverse)

\* list.sort(key=..., reverse=...) over items paired with their keys: stable
\* in both directions
sort(keyed, reverse) ==
    LET sorted == SortFrom(keyed, <<>>, reverse)
    IN [i \in 1..Len(sorted) |-> sorted[i].item]

----------------------------------------------------------------------------
(* TaskService (services/task_service.py).  Every method is a function of  *)
(* the table and its arguments; it yields the table after its commits and  *)
(* what the caller gets back.                                              *)

\* the outcome of a call that did nothing
Out(store) ==
    [store |-> store,       \* the table after the call
     raised |-> FALSE,      \* the call ended in an exception
     committed |-> FALSE,   \* the call found its row and committed a change
     ok |-> FALSE,          \* a bool return value
     count |-> 0,           \* an int return value
     ret |-> NoTask,        \* a task return value
     rows |-> <<>>,         \* ids of the rows a list query selected
     page |-> <<>>,         \* the list a list call returned
     stats |-> [total |-> 0, completed |-> 0, pending |-> 0],
     calls |-> 0,           \* TaskService methods invoked (route functions)
     reminder |-> "not called",  \* what schedule_reminders_for_task gave
     status |-> 0]          \* HTTP status (route functions)

\* get_task_by_id whose WHERE clause lacks `Task.user_id == current_user`
get_task_by_id_any_owner(store, task_id, current_user) ==
    IF /\ task_id \in DOMAIN store
       /\ store[task_id].deleted_at = None
    THEN store[task_id] ELSE NoTask

\* get_task_by_id whose WHERE clause lacks `Task.deleted_at.is_(None)`
get_task_by_id_with_deleted(store, task_id, current_user) ==
    IF /\ task_id \in DOMAIN store
       /\ store[task_id].user_id = current_user
    THEN store[task_id] ELSE NoTask

get_task_by_id(store, task_id, current_user) ==
    IF /\ task_id \in DOMAIN store
       /\ store[task_id].user_id = current_user
       /\ store[task_id].deleted_at = None
    THEN store[task_id] ELSE NoTask

\* notification_settings values a row may carry besides the default
RemindSettings == "{\"reminder_enabled\": true, \"reminder_time\": 1}"
RemindDefaultTime == "{\"reminder_enabled\": true}"
RemindNoTime == "{\"reminder_enabled\": true, \"reminder_time\": null}"
BrokenSettings == "{reminder_enabled"
ListSettings == "[]"

NotificationSettings ==
    {DefaultNotificationSettings, RemindSettings, RemindDefaultTime,
     RemindNoTime, BrokenSettings, ListSettings, NoneS}

\* json.loads on the texts above: a dict, another JSON value, or an error
json_loads(text) ==
    CASE text = DefaultNotificationSettings ->
            [raised |-> FALSE, dict |-> TRUE,
             value |-> [reminder_enabled |-> FALSE, reminder_time |-> None]]
      [] text = RemindSettings ->
            [raised |-> FALSE, dict |-> TRUE,
             value |-> [reminder_enabled |-> TRUE, reminder_time |-> 1]]
      [] text = RemindDefaultTime ->
            [raised |-> FALSE, dict |-> TRUE, value |-> [reminder_enabled |-> TRUE]]
      [] text = RemindNoTime ->
            [raised |-> FALSE, dict |-> TRUE,
             value |-> [reminder_enabled |-> TRUE, reminder_time |-> None]]
      [] text = "{}" -> [raised |-> FALSE, dict |-> TRUE, value |-> <<>>]
      [] text = ListSettings -> [raised |-> FALSE, dict |-> FALSE, value |-> <<>>]
      [] OTHER -> [raised |-> TRUE, dict |-> FALSE, value |-> <<>>]

\* dict.get(key, default)
get(d, key, default) == IF key \in DOMAIN d THEN d[key] ELSE default

\* what schedule_reminders_for_task gives back: its return value, whether
\* a reminder was scheduled, and whether it ended in an exception
Planned(ret, scheduled) == [raised |-> FALSE, ret |-> ret, scheduled |-> scheduled]
PlanError == [raised |-> TRUE, ret |-> FALSE, scheduled |-> FALSE]

\* the body of the try block of schedule_reminders_for_task; times are in
\* hours
TryScheduleReminders(store, task_id, user_id, at) ==
    IF ~(task_id \in DOMAIN store /\ store[task_id].user_id = user_id)
    THEN Planned(FALSE, FALSE)
    ELSE
    LET task == store[task_id]
        text == IF task.notification_settings \in {NoneS, ""} THEN "{}"
                ELSE task.notification_settings
        notification_settings == json_loads(text)
    IN IF notification_settings.raised THEN PlanError
       ELSE IF ~notification_settings.dict THEN PlanError
       ELSE
       LET reminder_enabled == get(notification_settings.value, "reminder_enabled", FALSE)
           reminder_time == get(notification_settings.value, "reminder_time",
                                DefaultReminderHours)
       IN IF ~reminder_enabled THEN Planned(TRUE, FALSE)
          ELSE IF task.due_date = None THEN Planned(TRUE, FALSE)
          ELSE IF reminder_time = None THEN PlanError
          ELSE IF task.due_date - reminder_time > at THEN Planned(TRUE, TRUE)
          ELSE Planned(TRUE, FALSE)

\* schedule_reminders_for_task without its `except Exception`
schedule_reminders_for_task_uncaught(store, task_id, user_id, at) ==
    TryScheduleReminders(store, task_id, user_id, at)

\* except Exception: log and return False
schedule_reminders_for_task(store, task_id, user_id, at) ==
    LET tried == TryScheduleReminders(store, task_id, user_id, at) IN
    IF tried.raised THEN Planned(FALSE, FALSE) ELSE tried

\* the try/except around the call in create_task and update_task: the
\* return value is dropped, an exception is logged
Reminder(store, task_id, user_id, at) ==
    LET planned == schedule_reminders_for_task(store, task_id, user_id, at) IN
    IF planned.raised THEN "caught"
    ELSE IF planned.ret THEN "True" ELSE "False"

\* a create_task that keeps the user_id of the request body
create_task_body_owner(store, id, task_create, current_user, at) ==
    LET task == Task(id, task_create, at)
        committed == (id :> task) @@ store
        read == TaskRead_model_validate(task)
    IN [Out(committed) EXCEPT !.committed = TRUE, !.raised = read.raised,
                              !.ret = read.value,
                              !.reminder = Reminder(committed, id, task.user_id, at)]

create_task(store, id, task_create, current_user, at) ==
    LET task_data == [task_create EXCEPT !.user_id = current_user]
        task == Task(id, task_data, at)
        committed == (id :> task) @@ store
        read == TaskRead_model_validate(task)
    IN [Out(committed) EXCEPT !.committed = TRUE, !.raised = read.raised,
                              !.ret = read.value,
                              !.reminder = Reminder(committed, id, task.user_id, at)]

\* columns declared without Optional: NOT NULL in the tasks table
NotNullColumns == {"title", "is_completed", "priority"}

\* the null of a column, by the type of its values
Null(field) == IF field \in {"title", "description"} THEN NoneS ELSE None

\* the commit of an update that sets a NOT NULL column to null fails
\* (IntegrityError); update requests carry no null is_completed here
ViolatesNotNull(update_data) ==
    \E f \in DOMAIN update_data \cap (NotNullColumns \ {"is_completed"}) :
        update_data[f] = Null(f)

\* setattr(task, field, value) for every field the update carries
ApplyUpdate(task, update_data) ==
    [f \in DOMAIN task |->
        IF f \in DOMAIN update_data THEN update_data[f] ELSE task[f]]

update_task(store, task_id, update_data, current_user, at) ==
    LET task == get_task_by_id(store, task_id, current_user) IN
    IF ~Found(task) THEN Out(store)
    ELSE IF ViolatesNotNull(update_data) THEN [Out(store) EXCEPT !.raised = TRUE]
    ELSE LET updated == ApplyUpdate(task, update_data)
             committed == [store EXCEPT ![task_id] = updated]
             read == TaskRead_model_validate(updated)
         IN [Out(committed)
                EXCEPT !.committed = TRUE, !.raised = read.raised,
                       !.ret = read.value,
                       !.reminder = Reminder(committed, task_id, updated.user_id, at)]

\* delete_task that looks its task up without `Task.deleted_at.is_(None)`
delete_task_restamp(store, task_id, current_user, at) ==
    LET task == get_task_by_id_with_deleted(store, task_id, current_user) IN
    IF ~Found(task) THEN Out(store)
    ELSE [Out([store EXCEPT ![task_id].deleted_at = at])
            EXCEPT !.committed = TRUE, !.ok = TRUE]

delete_task(store, task_id, current_user, at) ==
    LET task == get_task_by_id(store, task_id, current_user) IN
    IF ~Found(task) THEN Out(store)
    ELSE [Out([store EXCEPT ![task_id].deleted_at = at])
            EXCEPT !.committed = TRUE, !.ok = TRUE]

\* db_session.delete(task) is a coroutine that is never awaited: the commit
\* that follows has nothing to flush
hard_delete_task(store, task_id, current_user) ==
    LET task == get_task_by_id(store, task_id, current_user) IN
    IF ~Found(task) THEN Out(store)
    ELSE [Out(store) EXCEPT !.ok = TRUE]

restore_task(store, task_id, current_user) ==
    IF /\ task_id \in DOMAIN store
       /\ store[task_id].user_id = current_user
       /\ store[task_id].deleted_at # None
    THEN LET restored == [store[task_id] EXCEPT !.deleted_at = None]
             read == TaskRead_model_validate(restored)
         IN [Out([store EXCEPT ![task_id] = restored])
                EXCEPT !.committed = TRUE, !.raised = read.raised,
                       !.ret = read.value]
    ELSE Out(store)

toggle_task_completion(store, task_id, current_user) ==
    LET task == get_task_by_id(store, task_id, current_user) IN
    IF ~Found(task) THEN Out(store)
    ELSE LET toggled == [task EXCEPT !.is_completed = ~task.is_completed]
             read == TaskRead_model_validate(toggled)
         IN [Out([store EXCEPT ![task_id] = toggled])
                EXCEPT !.committed = TRUE, !.raised = read.raised,
                       !.ret = read.value]

\* [TaskRead.model_validate(task) for task in tasks]
ReadAll(store, rows) ==
    LET read(i) == TaskRead_model_validate(store[rows[i]]) IN
    [Out(store) EXCEPT
        !.rows = rows,
        !.raised = \E i \in 1..Len(rows) : read(i).raised,
        !.page = IF \E i \in 1..Len(rows) : read(i).raised THEN <<>>
                 ELSE [i \in 1..Len(rows) |-> read(i).value]]

\* the WHERE clause of get_tasks without `Task.user_id == current_user`
TaskFilter_any_owner(row, current_user, status, priority, due_date_from, due_date_to) ==
    /\ row.deleted_at = None
    /\ status = "completed" => row.is_completed
    /\ status = "pending" => ~row.is_completed
    /\ priority = "low" => row.priority = 1
    /\ priority = "medium" => row.priority = 2
    /\ priority = "high" => row.priority = 3
    /\ due_date_from # None => (row.due_date # None /\ row.due_date >= due_date_from)
    /\ due_date_to # None => (row.due_date # None /\ row.due_date <= due_date_to)

\* the WHERE clause get_tasks builds
TaskFilter(row, current_user, status, priority, due_date_from, due_date_to) ==
    /\ row.user_id = current_user
    /\ row.deleted_at = None
    /\ status = "completed" => row.is_completed
    /\ status = "pending" => ~row.is_completed
    /\ priority = "low" => row.priority = 1
    /\ priority = "medium" => row.priority = 2
    /\ priority = "high" => row.priority = 3
    /\ due_date_from # None => (row.due_date # None /\ row.due_date >= due_date_from)
    /\ due_date_to # None => (row.due_date # None /\ row.due_date <= due_date_to)

\* scan is the order in which the unordered SELECT delivers the table
get_tasks(store, scan, skip, limit, current_user, status, priority, due_date_from, due_date_to) ==
    IF current_user = None THEN Out(store)
    ELSE LET keep(id) == TaskFilter(store[id], current_user, status, priority,
                                    due_date_from, due_date_to)
         IN ReadAll(store, OffsetLimit(SelectSeq(scan, keep), skip, limit))

get_deleted_tasks(store, scan, skip, limit, current_user) ==
    IF current_user = None THEN Out(store)
    ELSE LET keep(id) == /\ store[id].user_id = current_user
                         /\ store[id].deleted_at # None
         IN ReadAll(store, OffsetLimit(SelectSeq(scan, keep), skip, limit))

\* cleanup that selects with `Task.deleted_at <= cutoff_date`
cleanup_soft_deleted_tasks_inclusive(store, days_retained, at) ==
    LET cutoff_date == at - days_retained
        tasks_to_purge == {id \in DOMAIN store :
                              /\ store[id].deleted_at # None
                              /\ store[id].deleted_at <= cutoff_date}
    IN [Out([id \in DOMAIN store \ tasks_to_purge |-> store[id]])
            EXCEPT !.count = Cardinality(tasks_to_purge)]

\* days_retained is counted in clock ticks
cleanup_soft_deleted_tasks(store, days_retained, at) ==
    LET cutoff_date == at - days_retained
        tasks_to_purge == {id \in DOMAIN store :
                              /\ store[id].deleted_at # None
                              /\ store[id].deleted_at < cutoff_date}
    IN [Out([id \in DOMAIN store \ tasks_to_purge |-> store[id]])
            EXCEPT !.count = Cardinality(tasks_to_purge)]

----------------------------------------------------------------------------
(* The route functions of api/routers/tasks.py.  Each takes the arguments  *)
(* FastAPI resolved for it; current_user is what the dependency            *)
(* get_current_user_from_request returned.                                 *)

\* str(uuid): the canonical text of an id
str(id) == <<"uuid-text", id>>

\* datetime.max
DatetimeMax == 9999

\* an exception that leaves the route function: 500 Internal Server Error
ServerError(store, calls) ==
    [Out(store) EXCEPT !.raised = TRUE, !.status = 500, !.calls = calls]

\* raise HTTPException(status_code=...)
HTTPException(store, status_code, calls) ==
    [Out(store) EXCEPT !.status = status_code, !.calls = calls]

\* `if str(current_user.id) != str(user_id): raise HTTPException(403)`, the
\* first statement of every route function
OwnerCheck(current_user, user_id) ==
    IF current_user = None THEN "AttributeError"
    ELSE IF str(current_user) # str(user_id) THEN "Forbidden"
    ELSE "Allow"

\* what a route function returns once its single service call r is back
Served(r, found) ==
    IF r.raised THEN [r EXCEPT !.status = 500, !.calls = 1]
    ELSE IF ~found THEN HTTPException(r.store, 404, 1)
    ELSE [r EXCEPT !.status = 200, !.calls = 1]

\* the filter loop of get_user_tasks over the tasks the service returned
RouteFilter(task, user_id, q) ==
    /\ str(task.user_id) = str(user_id)
    /\ ~(q.status = "completed" /\ ~task.is_completed)
    /\ ~(q.status = "pending" /\ task.is_completed)
    /\ ~(q.priority = "low" /\ task.priority # 1)
    /\ ~(q.priority = "medium" /\ task.priority # 2)
    /\ ~(q.priority = "high" /\ task.priority # 3)
    /\ ~(/\ q.due_date_from # None /\ task.due_date # None
         /\ task.due_date < q.due_date_from)
    /\ ~(/\ q.due_date_to # None /\ task.due_date # None
         /\ task.due_date > q.due_date_to)

\* filtered_tasks.sort(key=..., reverse=(sort_order == "desc"))
RouteSort(tasklist, sort_by, sort_order) ==
    LET by_created(x) == x.created_at
        by_updated(x) == IF x.updated_at # None THEN x.updated_at ELSE x.created_at
        by_due(x) == IF x.due_date # None THEN x.due_date ELSE DatetimeMax
        by_priority(x) == x.priority
        reverse == (sort_order = "desc")
        with(key(_)) == [i \in 1..Len(tasklist) |->
                            [key |-> key(tasklist[i]), item |-> tasklist[i]]]
    IN CASE sort_by = "created_at" -> sort(with(by_created), reverse)
         [] sort_by = "updated_at" -> sort(with(by_updated), reverse)
         [] sort_by = "due_date" -> sort(with(by_due), reverse)
         [] sort_by = "priority" -> sort(with(by_priority), reverse)
         [] OTHER -> tasklist

get_user_tasks(store, scan, user_id, q, current_user) ==
    LET check == OwnerCheck(current_user, user_id) IN
    IF check = "AttributeError" THEN ServerError(store, 0)
    ELSE IF check = "Forbidden" THEN HTTPException(store, 403, 0)
    ELSE LET r == get_tasks(store, scan, q.skip, q.limit, current_user,
                            q.status, q.priority, q.due_date_from,
                            q.due_date_to)
             keep(task) == RouteFilter(task, user_id, q)
             filtered_tasks == RouteSort(SelectSeq(r.page, keep), q.sort_by,
                                         q.sort_order)
             start_idx == q.skip
             end_idx == Min(q.skip + q.limit, Len(filtered_tasks))
         IN IF r.raised THEN Served(r, TRUE)
            ELSE [Served(r, TRUE) EXCEPT
                     !.page = Slice(filtered_tasks, start_idx, end_idx)]

create_user_task(store, id, user_id, task_create, current_user, at) ==
    LET check == OwnerCheck(current_user, user_id) IN
    IF check = "AttributeError" THEN ServerError(store, 0)
    ELSE IF check = "Forbidden" THEN HTTPException(store, 403, 0)
    ELSE Served(create_task(store, id, [task_create EXCEPT !.user_id = user_id],
                            current_user, at), TRUE)

get_user_task(store, user_id, task_id, current_user) ==
    LET check == OwnerCheck(current_user, user_id) IN
    IF check = "AttributeError" THEN ServerError(store, 0)
    ELSE IF check = "Forbidden" THEN HTTPException(store, 403, 0)
    ELSE LET task == get_task_by_id(store, task_id, current_user) IN
         Served([Out(store) EXCEPT !.ret = task], Found(task))

update_user_task(store, user_id, task_id, task_update, current_user, at) ==
    LET check == OwnerCheck(current_user, user_id) IN
    IF check = "AttributeError" THEN ServerError(store, 0)
    ELSE IF check = "Forbidden" THEN HTTPException(store, 403, 0)
    ELSE LET r == update_task(store, task_id, task_update, current_user, at) IN
         Served(r, r.committed)

\* delete_user_task with the owner check moved behind the service call
delete_user_task_late_check(store, user_id, task_id, current_user, at) ==
    LET check == OwnerCheck(current_user, user_id)
        r == delete_task(store, task_id, current_user, at)
    IN IF check = "AttributeError" THEN ServerError(store, 0)
       ELSE IF check = "Forbidden" THEN HTTPException(r.store, 403, 1)
       ELSE Served(r, r.ok)

delete_user_task(store, user_id, task_id, current_user, at) ==
    LET check == OwnerCheck(current_user, user_id) IN
    IF check = "AttributeError" THEN ServerError(store, 0)
    ELSE IF check = "Forbidden" THEN HTTPException(store, 403, 0)
    ELSE LET r == delete_task(store, task_id, current_user, at) IN
         Served(r, r.ok)

route_toggle_task_completion(store, user_id, task_id, current_user) ==
    LET check == OwnerCheck(current_user, user_id) IN
    IF check = "AttributeError" THEN ServerError(store, 0)
    ELSE IF check = "Forbidden" THEN HTTPException(store, 403, 0)
    ELSE LET r == toggle_task_completion(store, task_id, current_user) IN
         Served(r, r.committed)

get_user_task_stats(store, scan, user_id, current_user) ==
    LET check == OwnerCheck(current_user, user_id) IN
    IF check = "AttributeError" THEN ServerError(store, 0)
    ELSE IF check = "Forbidden" THEN HTTPException(store, 403, 0)
    ELSE LET r == get_tasks(store, scan, 0, 10000, current_user, NoneS, NoneS,
                            None, None)
             user_tasks == SelectSeq(r.page,
                               LAMBDA task : str(task.user_id) = str(user_id))
             done == SelectSeq(user_tasks, LAMBDA task : task.is_completed)
             open == SelectSeq(user_tasks, LAMBDA task : ~task.is_completed)
         IN IF r.raised THEN Served(r, TRUE)
            ELSE [Served(r, TRUE) EXCEPT
                     !.stats = [total |-> Len(user_tasks),
                                completed |-> Len(done),
                                pending |-> Len(open)]]

get_user_deleted_tasks(store, scan, user_id, skip, limit, current_user) ==
    LET check == OwnerCheck(current_user, user_id) IN
    IF check = "AttributeError" THEN ServerError(store, 0)
    ELSE IF check = "Forbidden" THEN HTTPException(store, 403, 0)
    ELSE Served(get_deleted_tasks(store, scan, skip, limit, current_user), TRUE)

restore_user_task(store, user_id, task_id, current_user) ==
    LET check == OwnerCheck(current_user, user_id) IN
    IF check = "AttributeError" THEN ServerError(store, 0)
    ELSE IF check = "Forbidden" THEN HTTPException(store, 403, 0)
    ELSE LET r == restore_task(store, task_id, current_user) IN
         Served(r, r.committed)

----------------------------------------------------------------------------
(* The mounted application (main.py): a request is matched against the     *)
(* routes of api/routers/tasks.py in the order they were registered, the   *)
(* dependency get_current_user_from_request resolves current_user, path    *)
(* parameters are validated, and the route function runs.                  *)

\* one path segment: a UUID-shaped text or a literal word
UuidSeg(id) == [lit |-> "", uuid |-> id]
LitSeg(word) == [lit |-> word, uuid |-> None]

\* the Authorization header: scheme and credentials
NoAuthorization == [scheme |-> "", token |-> "", sub |-> None]
Authorization(scheme, token, sub) == [scheme |-> scheme, token |-> token, sub |-> sub]
BearerFor(user) == Authorization("Bearer", "valid", user)

\* a request as it leaves the middleware stack of main.py: no middleware
\* sets an attribute on request.state
Request(method, path, authorization) ==
    [method |-> method, path |-> path, authorization |-> authorization,
     state |-> <<>>]

\* @router.<method>(<path>) in source order, paths below the /api prefix
Routes ==
    << [method |-> "GET", path |-> <<"{user_id}", "tasks">>,
        endpoint |-> "get_user_tasks"],
       [method |-> "POST", path |-> <<"{user_id}", "tasks">>,
        endpoint |-> "create_user_task"],
       [method |-> "GET", path |-> <<"{user_id}", "tasks", "{task_id}">>,
        endpoint |-> "get_user_task"],
       [method |-> "PUT", path |-> <<"{user_id}", "tasks", "{task_id}">>,
        endpoint |-> "update_user_task"],
       [method |-> "DELETE", path |-> <<"{user_id}", "tasks", "{task_id}">>,
        endpoint |-> "delete_user_task"],
       [method |-> "PATCH", path |-> <<"{user_id}", "tasks", "{task_id}", "complete">>,
        endpoint |-> "toggle_task_completion"],
       [method |-> "GET", path |-> <<"{user_id}", "tasks", "stats">>,
        endpoint |-> "get_user_task_stats"],
       [method |-> "GET", path |-> <<"{user_id}", "tasks", "deleted">>,
        endpoint |-> "get_user_deleted_tasks"],
       [method |-> "POST", path |-> <<"{user_id}", "tasks", "{task_id}", "restore">>,
        endpoint |-> "restore_user_task"] >>

PathParams == {"{user_id}", "{task_id}"}

\* a path parameter matches any segment, a literal only itself
RouteMatches(route, request) ==
    /\ route.method = request.method
    /\ Len(route.path) = Len(request.path)
    /\ \A i \in 1..Len(route.path) :
          \/ route.path[i] \in PathParams
          \/ route.path[i] = request.path[i].lit

\* the first registered route that matches, 0 when none does
MatchRoute(request) ==
    LET hits == {i \in 1..Len(Routes) : RouteMatches(Routes[i], request)}
    IN IF hits = {} THEN 0
       ELSE CHOOSE i \in hits : \A j \in hits : i <= j

\* getattr(request.state, 'user', None)
get_current_user_from_request(request) ==
    IF "user" \in DOMAIN request.state THEN request.state["user"] ELSE None

\* user_id: UUID and task_id: UUID must parse
PathParamsValid(route, request) ==
    \A i \in 1..Len(route.path) :
        route.path[i] \in PathParams => request.path[i].uuid # None

\* the application's answer to a request; task_create, task_update and q are
\* the (valid) body and query the request carries
Dispatch(store, scan, id, at, request, task_create, task_update, q) ==
    LET i == MatchRoute(request) IN
    IF i = 0 THEN HTTPException(store, 404, 0)
    ELSE
    LET route == Routes[i]
        current_user == get_current_user_from_request(request)
        user_id == request.path[1].uuid
        task_id == IF Len(request.path) >= 3 THEN request.path[3].uuid ELSE None
        endpoint == route.endpoint
    IN IF ~PathParamsValid(route, request) THEN HTTPException(store, 422, 0)
       ELSE CASE endpoint = "get_user_tasks" ->
                    get_user_tasks(store, scan, user_id, q, current_user)
              [] endpoint = "create_user_task" ->
                    create_user_task(store, id, user_id, task_create, current_user, at)
              [] endpoint = "get_user_task" ->
                    get_user_task(store, user_id, task_id, current_user)
              [] endpoint = "update_user_task" ->
                    update_user_task(store, user_id, task_id, task_update, current_user, at)
              [] endpoint = "delete_user_task" ->
                    delete_user_task(store, user_id, task_id, current_user, at)
              [] endpoint = "toggle_task_completion" ->
                    route_toggle_task_completion(store, user_id, task_id, current_user)
              [] endpoint = "get_user_task_stats" ->
                    get_user_task_stats(store, scan, user_id, current_user)
              [] endpoint = "get_user_deleted_tasks" ->
                    get_user_deleted_tasks(store, scan, user_id, q.skip, q.limit,
                                           current_user)
              [] endpoint = "restore_user_task" ->
                    restore_user_task(store, user_id, task_id, current_user)

----------------------------------------------------------------------------
(* middleware/rate_limiter.py.  A path is a sequence of segments; a        *)
(* segment carries its text and whether it is a UUID written with          *)
(* lower-case or with upper-case hex digits.  Patterns and the keys of     *)
(* RateLimiter.limits are sequences of segment texts.                      *)

Word(text) == [text |-> text, uuid |-> "no"]
LowerUuid(n) == [text |-> "0000000" \o ToString(n) \o "-e89b-...", uuid |-> "lower"]
UpperUuid(n) == [text |-> "0000000" \o ToString(n) \o "-E89B-...", uuid |-> "upper"]

\* uuid_pattern = [0-9a-f]{8}-[0-9a-f]{4}-...: lower-case hex digits only
MatchesUuidPattern(segment) == segment.uuid = "lower"

\* re.sub(uuid_pattern, '{user_id}', path, count=1), then
\* re.sub(uuid_pattern, '{task_id}', ...) for the matches that are left
get_endpoint_pattern(path) ==
    LET hits == {i \in 1..Len(path) : MatchesUuidPattern(path[i])}
        first == IF hits = {} THEN 0 ELSE CHOOSE i \in hits : \A j \in hits : i <= j
    IN [i \in 1..Len(path) |->
           IF i \notin hits THEN path[i].text
           ELSE IF i = first THEN "{user_id}" ELSE "{task_id}"]

\* self.limits in the order of the dict; window in seconds
limits ==
    << [endpoint |-> <<"api", "{user_id}", "tasks">>, requests |-> 100, window |-> 60],
       [endpoint |-> <<"api", "{user_id}", "tasks", "{task_id}">>, requests |-> 50, window |-> 60],
       [endpoint |-> <<"api", "auth", "login">>, requests |-> 5, window |-> 300],
       [endpoint |-> <<"api", "auth", "register">>, requests |-> 2, window |-> 3600],
       [endpoint |-> <<"api", "auth", "me">>, requests |-> 20, window |-> 60],
       [endpoint |-> <<"api", "{user_id}", "tasks", "stats">>, requests |-> 30, window |-> 60],
       [endpoint |-> <<"default">>, requests |-> 100, window |-> 60] >>

\* key.startswith(endpoint.replace('{user_id}', '').replace('{task_id}', '')),
\* taken segment by segment
StartsWith(key, endpoint) ==
    LET stripped == [i \in 1..Len(endpoint) |->
                        IF endpoint[i] \in {"{user_id}", "{task_id}"} THEN ""
                        ELSE endpoint[i]]
    IN /\ Len(stripped) <= Len(key)
       /\ \A i \in 1..Len(stripped) : stripped[i] = key[i]

\* exact match, else the first key the stripped endpoint is a prefix of,
\* else "default"
get_limit_for_endpoint(endpoint) ==
    LET exact == {i \in 1..Len(limits) : limits[i].endpoint = endpoint}
        partial == {i \in 1..Len(limits) : StartsWith(limits[i].endpoint, endpoint)}
    IN IF exact # {} THEN limits[CHOOSE i \in exact : TRUE]
       ELSE IF partial # {} THEN limits[CHOOSE i \in partial : \A j \in partial : i <= j]
       ELSE limits[Len(limits)]

\* self.requests[key] of the defaultdict(deque)
Queue(reqs, key) == IF key \in DOMAIN reqs THEN reqs[key] ELSE <<>>

\* an eviction loop that removes nothing
DropOld_keeps(queue, window_start) ==
    queue

RECURSIVE DropOld(_, _)
\* while queue and queue[0] < window_start: queue.popleft()
DropOld(queue, window_start) ==
    IF queue # <<>> /\ Head(queue) < window_start
    THEN DropOld(Tail(queue), window_start)
    ELSE queue

\* recording the request twice
\* an Allow that records no timestamp
record_nothing(queue, at) ==
    queue

record_twice(queue, at) ==
    Append(Append(queue, at), at)

\* self.requests[key].append(now)
record(queue, at) ==
    Append(queue, at)

\* what is_allowed gives back, with the map it leaves behind
Verdict(reqs, allowed, limit, remaining, reset_time, retry_after) ==
    [requests |-> reqs, allowed |-> allowed,
     info |-> [limit |-> limit, remaining |-> remaining,
               reset_time |-> reset_time, retry_after |-> retry_after]]

\* is_allowed with `current_requests > limit` as its test
is_allowed_above_limit(reqs, ip, path, at) ==
    LET endpoint_pattern == get_endpoint_pattern(path)
        limit_config == get_limit_for_endpoint(endpoint_pattern)
        key == <<ip, endpoint_pattern>>
        window_start == at - limit_config.window
        queue == DropOld(Queue(reqs, key), window_start)
        current_requests == Len(queue)
    IN IF current_requests > limit_config.requests
       THEN Verdict((key :> queue) @@ reqs, FALSE, limit_config.requests, 0,
                    Head(queue) + limit_config.window,
                    Head(queue) + limit_config.window - at)
       ELSE Verdict((key :> record(queue, at)) @@ reqs, TRUE, limit_config.requests,
                    limit_config.requests - current_requests - 1,
                    at + limit_config.window, limit_config.window)

\* is_allowed that appends the timestamp of a denied request as well
is_allowed_records_denied(reqs, ip, path, at) ==
    LET endpoint_pattern == get_endpoint_pattern(path)
        limit_config == get_limit_for_endpoint(endpoint_pattern)
        key == <<ip, endpoint_pattern>>
        window_start == at - limit_config.window
        queue == DropOld(Queue(reqs, key), window_start)
        current_requests == Len(queue)
        oldest_request == IF queue # <<>> THEN Head(queue) ELSE at
        reset_time == oldest_request + limit_config.window
    IN IF current_requests >= limit_config.requests
       THEN Verdict((key :> record(queue, at)) @@ reqs, FALSE, limit_config.requests,
                    0, reset_time, reset_time - at)
       ELSE Verdict((key :> record(queue, at)) @@ reqs, TRUE, limit_config.requests,
                    limit_config.requests - current_requests - 1,
                    at + limit_config.window, limit_config.window)

\* RateLimiter.is_allowed at time.time() = at
is_allowed(reqs, ip, path, at) ==
    LET endpoint_pattern == get_endpoint_pattern(path)
        limit_config == get_limit_for_endpoint(endpoint_pattern)
        key == <<ip, endpoint_pattern>>
        window_start == at - limit_config.window
        queue == DropOld(Queue(reqs, key), window_start)
        current_requests == Len(queue)
        oldest_request == IF queue # <<>> THEN Head(queue) ELSE at
        reset_time == oldest_request + limit_config.window
    IN IF current_requests >= limit_config.requests
       THEN Verdict((key :> queue) @@ reqs, FALSE, limit_config.requests, 0,
                    reset_time, reset_time - at)
       ELSE Verdict((key :> record(queue, at)) @@ reqs, TRUE, limit_config.requests,
                    limit_config.requests - current_requests - 1,
                    at + limit_config.window, limit_config.window)

----------------------------------------------------------------------------
(* Bearer tokens.  A token is what jwt.decode can tell of it: the          *)
(* algorithm of its header, the key it was signed with, and its claims.    *)

BETTER_AUTH_SECRET == "secret"

WellFormedUuid == "123e4567-e89b-12d3-a456-426614174000"

\* uuid.UUID(text): the value, or ValueError
uuid_UUID(text) ==
    IF text = WellFormedUuid THEN [ok |-> TRUE, value |-> text]
    ELSE [ok |-> FALSE, value |-> NoneS]

\* EmailStr of TokenData
IsEmail(text) == text = "user@example.com"

\* jwt.decode(token, secret, algorithms=["HS256"]): the header's algorithm
\* is checked, then the signature, then exp against the UTC clock; a token
\* without exp passes
jwt_decode(token, secret, at) ==
    IF token.alg # "HS256" THEN [error |-> "InvalidAlgorithmError"]
    ELSE IF token.key # secret THEN [error |-> "InvalidSignatureError"]
    ELSE IF token.exp # None /\ token.exp <= at THEN [error |-> "ExpiredSignatureError"]
    ELSE [error |-> NoneS]

\* datetime.fromtimestamp(exp) < datetime.utcnow(): the local wall clock
\* reading of exp against the UTC wall clock reading of now
LocallyPast(exp, at, utc_offset) == exp # None /\ exp # 0 /\ exp + utc_offset < at

Unauthorized(kind, detail) ==
    [accepted |-> FALSE, status |-> 401, kind |-> kind, detail |-> detail,
     user_id |-> NoneS, email |-> NoneS]

Authenticated(user_id, email) ==
    [accepted |-> TRUE, status |-> 200, kind |-> "accepted", detail |-> NoneS,
     user_id |-> user_id, email |-> email]

credentials_exception == Unauthorized("invalid", "Could not validate credentials")

validate_and_decode_token(token, at, utc_offset) ==
    LET decoded == jwt_decode(token, BETTER_AUTH_SECRET, at) IN
    IF decoded.error = "ExpiredSignatureError"
    THEN Unauthorized("expired", "Token has expired")
    ELSE IF decoded.error # NoneS THEN credentials_exception
    ELSE IF token.sub = NoneS \/ token.email = NoneS THEN credentials_exception
    ELSE IF ~uuid_UUID(token.sub).ok THEN credentials_exception
    ELSE IF LocallyPast(token.exp, at, utc_offset) THEN credentials_exception
    ELSE IF ~IsEmail(token.email) THEN credentials_exception
    ELSE Authenticated(uuid_UUID(token.sub).value, token.email)

\* the payload, or None
validate_better_auth_token(token, at, utc_offset) ==
    LET decoded == jwt_decode(token, BETTER_AUTH_SECRET, at) IN
    IF decoded.error # NoneS THEN NoneS
    ELSE IF LocallyPast(token.exp, at, utc_offset) THEN NoneS
    ELSE "payload"

\* JWTBearer.__call__ on a request that carries the token as bearer
\* credentials
JWTBearer(token, at, utc_offset) ==
    IF validate_better_auth_token(token, at, utc_offset) = NoneS
    THEN Unauthorized("invalid or expired", "Invalid or expired token.")
    ELSE Authenticated(token.sub, IF token.email = NoneS THEN "" ELSE token.email)

----------------------------------------------------------------------------
(* Users.  A stored password is the bcrypt hash of the plain one; the      *)
(* model keeps of a hash what verify can tell of it.                       *)

Emails == {"a@example.com", "b@example.com"}
Passwords == {"right", "wrong"}

NoUser == [id |-> None]

\* pwd_context.hash(password)
get_password_hash(password) == "$2b$12$" \o password

\* pwd_context.verify(plain_password, hashed_password)
verify_password(plain_password, hashed_password) ==
    hashed_password = get_password_hash(plain_password)

User(id, email, hashed_password) ==
    [id |-> id, email |-> email, hashed_password |-> hashed_password]

\* select(User).where(User.email == email), scalar_one_or_none(); the
\* column is unique
get_user_by_email(store, email) ==
    LET hits == {id \in DOMAIN store : store[id].email = email}
    IN IF hits = {} THEN NoUser ELSE store[CHOOSE id \in hits : TRUE]

\* what a login attempt returned or raised, and the steps it went through
Attempt(user, raised, steps) == [user |-> user, raised |-> raised, steps |-> steps]

\* UserService.authenticate_user
authenticate_user(store, email, password) ==
    LET user == get_user_by_email(store, email) IN
    IF user = NoUser THEN Attempt(NoUser, NoneS, <<"get_user_by_email">>)
    ELSE IF ~verify_password(password, user.hashed_password)
         THEN Attempt(NoUser, NoneS, <<"get_user_by_email", "verify_password">>)
         ELSE Attempt(user, NoneS, <<"get_user_by_email", "verify_password">>)

\* AuthService.authenticate_user: the statement is built from
\* User.username, an attribute the User model does not have, so the call
\* ends there for every input
AuthService_authenticate_user(store, username, password) ==
    Attempt(NoUser, "AttributeError", <<"Session">>)

----------------------------------------------------------------------------
(* A session that fails.  The methods of TaskService call the session in   *)
(* a fixed order; an outage makes one of those calls raise.                *)

FailingMethods ==
    {"get_task_by_id", "update_task", "toggle_task_completion", "delete_task",
     "restore_task"}

\* the method on a session that works
Healthy(op, store, task_id, update_data, current_user, at) ==
    CASE op = "get_task_by_id" ->
            [Out(store) EXCEPT !.ret = get_task_by_id(store, task_id, current_user)]
      [] op = "update_task" -> update_task(store, task_id, update_data, current_user, at)
      [] op = "toggle_task_completion" -> toggle_task_completion(store, task_id, current_user)
      [] op = "delete_task" -> delete_task(store, task_id, current_user, at)
      [] op = "restore_task" -> restore_task(store, task_id, current_user)

\* the row the method's SELECT gives when the session works
Looked(op, store, task_id, current_user) ==
    IF op = "restore_task"
    THEN /\ task_id \in DOMAIN store
         /\ store[task_id].user_id = current_user
         /\ store[task_id].deleted_at # None
    ELSE Found(get_task_by_id(store, task_id, current_user))

\* the session calls the method makes, in order: the SELECT; then, with a
\* row, commit and refresh; then in update_task the SELECT of
\* schedule_reminders_for_task, which runs on the same session
SessionCalls(op, found) ==
    IF op = "get_task_by_id" \/ ~found THEN <<"execute">>
    ELSE IF op = "update_task"
         THEN <<"execute", "commit", "refresh", "execute in schedule_reminders_for_task">>
         ELSE <<"execute", "commit", "refresh">>

\* a method that answers a failed session call with its not-found value
OnFailingSession_masked(op, store, task_id, update_data, current_user, at, n) ==
    LET healthy == Healthy(op, store, task_id, update_data, current_user, at)
        calls == SessionCalls(op, Looked(op, store, task_id, current_user))
    IN IF n > Len(calls) THEN healthy ELSE Out(store)

\* the method on a session whose n-th call raises.  No method catches
\* around execute, commit or refresh, so the exception leaves it: before
\* the commit nothing is stored, after it the change is.  The SELECT of
\* schedule_reminders_for_task stands in its own try: its exception makes
\* it return False, and update_task goes on to TaskRead.model_validate.
OnFailingSession(op, store, task_id, update_data, current_user, at, n) ==
    LET healthy == Healthy(op, store, task_id, update_data, current_user, at)
        calls == SessionCalls(op, Looked(op, store, task_id, current_user))
    IN IF n > Len(calls) THEN healthy
       ELSE IF calls[n] \in {"execute", "commit"}
            THEN [Out(store) EXCEPT !.raised = TRUE]
       ELSE IF calls[n] = "refresh"
            THEN [Out(healthy.store) EXCEPT !.raised = TRUE,
                                            !.committed = healthy.committed]
       ELSE [healthy EXCEPT !.reminder = "False"]

----------------------------------------------------------------------------
(* CacheService.  A Python value is its type and its JSON text; the cache  *)
(* stores the text, and get parses it back.                                *)

default_ttl == 300

PyNone == [type |-> "NoneType", repr |-> "null"]
PyInt == [type |-> "int", repr |-> "3"]
PyList == [type |-> "list", repr |-> "[1, 2]"]
PyTuple == [type |-> "tuple", repr |-> "[1, 2]"]

\* json.dumps(value, default=str): a tuple is written as an array
dumps(value) == value.repr

\* json.loads(serialized_value): an array is read as a list
loads(serialized_value) ==
    [type |-> CASE serialized_value = "null" -> "NoneType"
                [] serialized_value = "3" -> "int"
                [] OTHER -> "list",
     repr |-> serialized_value]

\* the cache without some keys
Without(c, keys) == [k \in DOMAIN c \ keys |-> c[k]]

CacheOut(c, ret) == [cache |-> c, ret |-> ret]

\* `pattern in key` for strings given by their characters
IsSubstring(pattern, key) ==
    \E i \in 0..(Len(key) - Len(pattern)) :
        \A n \in 1..Len(pattern) : key[i + n] = pattern[n]

\* CacheService.set: `ttl or self.default_ttl` takes the default for None
\* and for 0
cache_set(c, key, value, ttl, at) ==
    LET ttl_seconds == IF ttl = None \/ ttl = 0 THEN default_ttl ELSE ttl
    IN CacheOut((key :> [value |-> dumps(value), expiry |-> at + ttl_seconds]) @@ c, TRUE)

\* CacheService.get
cache_get(c, key, at) ==
    IF key \notin DOMAIN c THEN CacheOut(c, PyNone)
    ELSE IF at > c[key].expiry THEN CacheOut(Without(c, {key}), PyNone)
    ELSE CacheOut(c, loads(c[key].value))

\* CacheService.delete
cache_delete(c, key) ==
    IF key \in DOMAIN c THEN CacheOut(Without(c, {key}), TRUE) ELSE CacheOut(c, FALSE)

\* CacheService.clear
cache_clear(c) == CacheOut(<<>>, TRUE)

\* CacheService.invalidate_pattern
invalidate_pattern(c, pattern) ==
    LET keys_to_remove == {k \in DOMAIN c : IsSubstring(pattern, k)}
    IN CacheOut(Without(c, keys_to_remove), Cardinality(keys_to_remove))

\* CacheService.make_key for keys of at most 255 characters
make_key(prefix, parts) == <<prefix>> \o parts

\* the wrapper of CacheService.cached around a function that gives
\* `result` when it is called
cached_wrapper(c, ttl, key_prefix, name, args, result, at) ==
    LET cache_key == make_key(key_prefix, <<name, ToString(args), ToString(<<>>)>>)
        cached_result == cache_get(c, cache_key, at)
    IN IF cached_result.ret # PyNone
       THEN [cache |-> cached_result.cache, ret |-> cached_result.ret, invoked |-> FALSE]
       ELSE [cache |-> cache_set(cached_result.cache, cache_key, result, ttl, at).cache,
             ret |-> result, invoked |-> TRUE]

----------------------------------------------------------------------------
(* History *)

Row(store, id) == IF id \in DOMAIN store THEN store[id] ELSE NoTask

NoArgs == [none |-> TRUE]

\* what the history keeps of one call: who called what and when, the table
\* before and after the call, and everything the call gave back
Entry(layer, op, caller, owner, tid, args, before, out) ==
    [layer |-> layer, op |-> op, caller |-> caller, owner |-> owner,
     tid |-> tid, args |-> args, at |-> now,
     raised |-> out.raised, committed |-> out.committed, ok |-> out.ok,
     count |-> out.count, ret |-> out.ret, rows |-> out.rows,
     page |-> out.page, stats |-> out.stats, calls |-> out.calls,
     status |-> out.status, reminder |-> out.reminder,
     before |-> before, after |-> out.store]

Record(e) ==
    log' = IF Len(log) < depth THEN Append(log, e) ELSE Append(Tail(log), e)

HasLast == Len(log) > 0
Last == log[Len(log)]

\* a call changes the table to out.store and is recorded
Effect(e, out) ==
    /\ tasks' = out.store
    /\ Record(e)
    /\ UNCHANGED <<now, depth, requests, inflight, users, cache>>

----------------------------------------------------------------------------
(* Inputs *)

\* task ids a caller may address: every stored one and one that is not
Addressable == DOMAIN tasks \cup {MissingTask}

CreateBodies ==
    {TaskCreate("a", c, 1, None, u) : c \in BOOLEAN, u \in OwnerIds}

\* the update requests of the runs: an empty one, one that completes the
\* task, and one that names another owner
UpdateBodies ==
    {TaskUpdate(body) :
        body \in {<<>>, [is_completed |-> TRUE]} \cup {[user_id |-> u] : u \in Users}}

\* TaskCreate(**body).model_dump(): the body with the declared defaults for
\* the fields it leaves out
TaskCreate_model_dump(body) ==
    body @@ [description |-> NoneS, is_completed |-> FALSE, priority |-> 1,
             due_date |-> None]

\* a field of a TaskUpdate: left unset, or set to one of vals
Opt(field, vals) == {<<>>} \cup {field :> v : v \in vals}

\* TaskUpdate requests with every combination of set and unset fields; a
\* title, a description and a priority may be set to null (every field of
\* TaskUpdate is Optional)
PartialBodies ==
    {t @@ d @@ c @@ p @@ due :
        t \in Opt("title", {"b", NoneS}), d \in Opt("description", {NoneS}),
        c \in Opt("is_completed", BOOLEAN), p \in Opt("priority", {2, None}),
        due \in Opt("due_date", {1})}

\* create requests: title and user_id are required, the other fields may
\* be left out; user_id names any user
RawCreateBodies ==
    {[title |-> "a", user_id |-> u] @@ c @@ p @@ due :
        u \in OwnerIds, c \in Opt("is_completed", BOOLEAN),
        p \in Opt("priority", {1, 2}), due \in Opt("due_date", {1})}

\* a list query: the query parameters of GET /{user_id}/tasks
Query(status, priority, from, to, skip, limit, sort_by, sort_order) ==
    [status |-> status, priority |-> priority, due_date_from |-> from,
     due_date_to |-> to, skip |-> skip, limit |-> limit,
     sort_by |-> sort_by, sort_order |-> sort_order]

\* the parameter defaults of get_user_tasks
DefaultQuery == Query(NoneS, NoneS, None, None, 0, 100, "created_at", "desc")

----------------------------------------------------------------------------
(* TaskService methods as operations *)

SvcCreate ==
    \E cu \in Users, body \in CreateBodies :
        /\ nextId < MaxTasks
        /\ LET id == nextId + 1
               out == create_task(tasks, id, body, cu, now)
           IN /\ Effect(Entry("svc", "create_task", cu, None, id, body, tasks, out), out)
              /\ nextId' = id

\* create_task with a TaskCreate built from a request body
SvcCreateFrom ==
    \E cu \in Users, body \in RawCreateBodies :
        /\ nextId < MaxTasks
        /\ LET id == nextId + 1
               out == create_task(tasks, id, TaskCreate_model_dump(body), cu, now)
           IN /\ Effect(Entry("svc", "create_task", cu, None, id, body, tasks, out), out)
              /\ nextId' = id

\* NotificationService.schedule_reminders_for_task as an operation; ok is
\* its return value, count the number of reminders it scheduled
ScheduleReminders ==
    \E tid \in Addressable, uid \in Users :
        LET planned == schedule_reminders_for_task(tasks, tid, uid, now)
            out == [Out(tasks) EXCEPT
                       !.raised = planned.raised, !.ok = planned.ret,
                       !.count = IF planned.scheduled THEN 1 ELSE 0]
        IN /\ Effect(Entry("notify", "schedule_reminders_for_task", uid, None, tid, NoArgs, tasks, out), out)
           /\ UNCHANGED nextId

SvcGet ==
    \E cu \in Users, tid \in Addressable :
        LET out == [Out(tasks) EXCEPT !.ret = get_task_by_id(tasks, tid, cu)]
        IN /\ Effect(Entry("svc", "get_task_by_id", cu, None, tid, NoArgs, tasks, out), out)
           /\ UNCHANGED nextId

SvcUpdate(Bodies) ==
    \E cu \in Users, tid \in Addressable, body \in Bodies :
        LET out == update_task(tasks, tid, body, cu, now)
        IN /\ Effect(Entry("svc", "update_task", cu, None, tid, body, tasks, out), out)
           /\ UNCHANGED nextId

SvcDelete ==
    \E cu \in Users, tid \in Addressable :
        LET out == delete_task(tasks, tid, cu, now)
        IN /\ Effect(Entry("svc", "delete_task", cu, None, tid, NoArgs, tasks, out), out)
           /\ UNCHANGED nextId

SvcHardDelete ==
    \E cu \in Users, tid \in Addressable :
        LET out == hard_delete_task(tasks, tid, cu)
        IN /\ Effect(Entry("svc", "hard_delete_task", cu, None, tid, NoArgs, tasks, out), out)
           /\ UNCHANGED nextId

SvcRestore ==
    \E cu \in Users, tid \in Addressable :
        LET out == restore_task(tasks, tid, cu)
        IN /\ Effect(Entry("svc", "restore_task", cu, None, tid, NoArgs, tasks, out), out)
           /\ UNCHANGED nextId

SvcToggle ==
    \E cu \in Users, tid \in Addressable :
        LET out == toggle_task_completion(tasks, tid, cu)
        IN /\ Effect(Entry("svc", "toggle_task_completion", cu, None, tid, NoArgs, tasks, out), out)
           /\ UNCHANGED nextId

SvcCleanup ==
    \E days \in 0..MaxTime :
        LET out == cleanup_soft_deleted_tasks(tasks, days, now)
        IN /\ Effect(Entry("svc", "cleanup_soft_deleted_tasks", None, None, None,
                           [days_retained |-> days], tasks, out), out)
           /\ UNCHANGED nextId

SvcGetTasks(Queries) ==
    \E cu \in Users \cup {None}, q \in Queries, scan \in ScanOrders(tasks) :
        LET out == get_tasks(tasks, scan, q.skip, q.limit, cu, q.status,
                             q.priority, q.due_date_from, q.due_date_to)
        IN /\ Effect(Entry("svc", "get_tasks", cu, None, None, q, tasks, out), out)
           /\ UNCHANGED nextId

SvcGetDeleted ==
    \E cu \in Users \cup {None}, scan \in ScanOrders(tasks) :
        LET out == get_deleted_tasks(tasks, scan, 0, 100, cu)
        IN /\ Effect(Entry("svc", "get_deleted_tasks", cu, None, None, DefaultQuery, tasks, out), out)
           /\ UNCHANGED nextId

----------------------------------------------------------------------------
(* Route functions as operations *)

Callers == Users \cup {None}

\* Who: the (current_user, user_id) pairs the calls are made with
RouteGetTasks(Who, Queries) ==
    \E w \in Who, q \in Queries, scan \in ScanOrders(tasks) :
        LET cu == w[1]
            uid == w[2]
            out == get_user_tasks(tasks, scan, uid, q, cu)
        IN /\ Effect(Entry("handler", "get_user_tasks", cu, uid, None, q, tasks, out), out)
           /\ UNCHANGED nextId

RouteCreate ==
    \E cu \in Callers, uid \in OwnerIds, body \in CreateBodies :
        /\ nextId < MaxTasks
        /\ LET id == nextId + 1
               out == create_user_task(tasks, id, uid, body, cu, now)
           IN /\ Effect(Entry("handler", "create_user_task", cu, uid, id, body, tasks, out), out)
              /\ nextId' = IF out.committed THEN id ELSE nextId

RouteGet ==
    \E cu \in Callers, uid \in OwnerIds, tid \in Addressable :
        LET out == get_user_task(tasks, uid, tid, cu)
        IN /\ Effect(Entry("handler", "get_user_task", cu, uid, tid, NoArgs, tasks, out), out)
           /\ UNCHANGED nextId

RouteUpdate ==
    \E cu \in Callers, uid \in OwnerIds, tid \in Addressable, body \in UpdateBodies :
        LET out == update_user_task(tasks, uid, tid, body, cu, now)
        IN /\ Effect(Entry("handler", "update_user_task", cu, uid, tid, body, tasks, out), out)
           /\ UNCHANGED nextId

RouteDelete ==
    \E cu \in Callers, uid \in OwnerIds, tid \in Addressable :
        LET out == delete_user_task(tasks, uid, tid, cu, now)
        IN /\ Effect(Entry("handler", "delete_user_task", cu, uid, tid, NoArgs, tasks, out), out)
           /\ UNCHANGED nextId

RouteToggle ==
    \E cu \in Callers, uid \in OwnerIds, tid \in Addressable :
        LET out == route_toggle_task_completion(tasks, uid, tid, cu)
        IN /\ Effect(Entry("handler", "toggle_task_completion", cu, uid, tid, NoArgs, tasks, out), out)
           /\ UNCHANGED nextId

RouteStats ==
    \E cu \in Callers, uid \in OwnerIds, scan \in ScanOrders(tasks) :
        LET out == get_user_task_stats(tasks, scan, uid, cu)
        IN /\ Effect(Entry("handler", "get_user_task_stats", cu, uid, None, NoArgs, tasks, out), out)
           /\ UNCHANGED nextId

RouteGetDeleted ==
    \E cu \in Callers, uid \in OwnerIds, scan \in ScanOrders(tasks) :
        LET out == get_user_deleted_tasks(tasks, scan, uid, 0, 100, cu)
        IN /\ Effect(Entry("handler", "get_user_deleted_tasks", cu, uid, None, DefaultQuery, tasks, out), out)
           /\ UNCHANGED nextId

RouteRestore ==
    \E cu \in Callers, uid \in OwnerIds, tid \in Addressable :
        LET out == restore_user_task(tasks, uid, tid, cu)
        IN /\ Effect(Entry("handler", "restore_user_task", cu, uid, tid, NoArgs, tasks, out), out)
           /\ UNCHANGED nextId

----------------------------------------------------------------------------
(* Requests to the mounted application *)

Authorizations ==
    {NoAuthorization,
     Authorization("Basic", "valid", None),
     Authorization("Bearer", "malformed", None)}
    \cup {Authorization("Bearer", "expired", u) : u \in Users}
    \cup {BearerFor(u) : u \in Users}

\* one request per documented endpoint, for every path owner and task id
Paths ==
    LET owners == {UuidSeg(u) : u \in OwnerIds}
        ids == {UuidSeg(t) : t \in Addressable}
    IN {<<"GET", <<o, LitSeg("tasks")>> >> : o \in owners}
       \cup {<<"POST", <<o, LitSeg("tasks")>> >> : o \in owners}
       \cup {<<m, <<o, LitSeg("tasks"), t>> >> :
                m \in {"GET", "PUT", "DELETE"}, o \in owners, t \in ids}
       \cup {<<"PATCH", <<o, LitSeg("tasks"), t, LitSeg("complete")>> >> :
                o \in owners, t \in ids}
       \cup {<<"GET", <<o, LitSeg("tasks"), LitSeg(w)>> >> :
                o \in owners, w \in {"stats", "deleted"}}
       \cup {<<"POST", <<o, LitSeg("tasks"), t, LitSeg("restore")>> >> :
                o \in owners, t \in ids}

Http ==
    \E p \in Paths, a \in Authorizations, scan \in ScanOrders(tasks) :
        LET request == Request(p[1], p[2], a)
            id == nextId + 1
            owner == p[2][1].uuid
            out == Dispatch(tasks, scan, id, now, request,
                            TaskCreate("a", FALSE, 1, None, owner),
                            [is_completed |-> TRUE], DefaultQuery)
            i == MatchRoute(request)
            endpoint == IF i = 0 THEN "no route" ELSE Routes[i].endpoint
            tid == IF Len(p[2]) >= 3 THEN p[2][3].uuid ELSE None
        IN /\ Effect(Entry("http", endpoint, get_current_user_from_request(request),
                           owner, tid, request, tasks, out), out)
           /\ nextId' = IF endpoint = "create_user_task" /\ out.committed
                        THEN id ELSE nextId

\* time passes
Tick ==
    /\ now < MaxTime
    /\ now' = now + 1
    /\ UNCHANGED <<tasks, nextId, log, depth, requests, inflight, users, cache>>

----------------------------------------------------------------------------
(* Stores a run may start from: every table that creates, updates and soft *)
(* deletes at time 0 leave behind                                          *)

RowsOf(id) ==
    {[Task(id, TaskCreate("a", c, 1, None, u), 0) EXCEPT !.deleted_at = d] :
        c \in BOOLEAN, u \in Users, d \in {None, 0}}

Stores(n) ==
    {store \in [1..n -> UNION {RowsOf(id) : id \in 1..n}] :
        \A id \in 1..n : store[id].id = id}

\* the rate limiter as constructed: no key has a queue, no request is inside
IdleGate == requests = <<>> /\ inflight = <<>> /\ users = <<>> /\ cache = <<>>

\* a run of at most `calls` calls from one of the tables with up to n rows,
\* one tick after those rows were written
InitFrom(n, calls) ==
    /\ \E k \in 0..n : tasks \in Stores(k) /\ nextId = k
    /\ now = 1
    /\ log = <<>>
    /\ depth = calls
    /\ IdleGate

\* the run may make another call
MoreCalls == Len(log) < depth

----------------------------------------------------------------------------
(* Spec: the task store under any sequence of TaskService calls, starting  *)
(* from the empty table; the history keeps the last call                   *)

Init ==
    /\ tasks = <<>>
    /\ nextId = 0
    /\ now = 0
    /\ log = <<>>
    /\ depth = 1
    /\ IdleGate

Next ==
    \/ SvcCreate
    \/ SvcGet
    \/ SvcUpdate(UpdateBodies)
    \/ SvcDelete
    \/ SvcHardDelete
    \/ SvcRestore
    \/ SvcToggle
    \/ SvcCleanup
    \/ SvcGetTasks({DefaultQuery})
    \/ SvcGetDeleted
    \/ Tick

Spec == Init /\ [][Next]_vars

----------------------------------------------------------------------------
(* SpecOutage: one call of a TaskService method on a session that fails at *)
(* one of its calls                                                        *)

\* which call of the session failed, if the method came that far
Fault(op, store, task_id, body, current_user, n) ==
    LET calls == SessionCalls(op, Looked(op, store, task_id, current_user))
    IN [n |-> n, failed |-> n <= Len(calls), body |-> body,
        call |-> IF n <= Len(calls) THEN calls[n] ELSE NoneS]

SvcOnFailingSession ==
    \E cu \in Users, tid \in Addressable, op \in FailingMethods, n \in 1..4,
       body \in UpdateBodies :
        LET out == OnFailingSession(op, tasks, tid, body, cu, now, n)
        IN /\ op # "update_task" => body = <<>>
           /\ Effect(Entry("svc", op, cu, None, tid, Fault(op, tasks, tid, body, cu, n), tasks, out), out)
           /\ UNCHANGED nextId

InitOutage == InitFrom(CallTasks, 1)

NextOutage == MoreCalls /\ SvcOnFailingSession

SpecOutage == InitOutage /\ [][NextOutage]_vars

----------------------------------------------------------------------------
(* SpecCalls: one call of any TaskService method or route function on any  *)
(* stored table                                                            *)

InitCalls == InitFrom(CallTasks, 1)

NextCalls ==
    \/ MoreCalls /\ SvcCreate
    \/ MoreCalls /\ SvcGet
    \/ MoreCalls /\ SvcUpdate(UpdateBodies)
    \/ MoreCalls /\ SvcDelete
    \/ MoreCalls /\ SvcHardDelete
    \/ MoreCalls /\ SvcRestore
    \/ MoreCalls /\ SvcToggle
    \/ MoreCalls /\ SvcCleanup
    \/ MoreCalls /\ SvcGetTasks({DefaultQuery})
    \/ MoreCalls /\ SvcGetDeleted
    \/ MoreCalls /\ RouteGetTasks(Callers \X OwnerIds, {DefaultQuery})
    \/ MoreCalls /\ RouteCreate
    \/ MoreCalls /\ RouteGet
    \/ MoreCalls /\ RouteUpdate
    \/ MoreCalls /\ RouteDelete
    \/ MoreCalls /\ RouteToggle
    \/ MoreCalls /\ RouteStats
    \/ MoreCalls /\ RouteGetDeleted
    \/ MoreCalls /\ RouteRestore

SpecCalls == InitCalls /\ [][NextCalls]_vars

----------------------------------------------------------------------------
(* SpecHttp: one request to the mounted application over any stored table  *)

InitHttp == InitFrom(HttpTasks, 1)

NextHttp == MoreCalls /\ Http

SpecHttp == InitHttp /\ [][NextHttp]_vars

----------------------------------------------------------------------------
(* SpecTrip: up to three successive calls among get, toggle, soft delete   *)
(* and restore                                                             *)

InitTrip == InitFrom(TripTasks, 3)

NextTrip ==
    \/ MoreCalls /\ SvcGet
    \/ MoreCalls /\ SvcDelete
    \/ MoreCalls /\ SvcRestore
    \/ MoreCalls /\ SvcToggle

SpecTrip == InitTrip /\ [][NextTrip]_vars

----------------------------------------------------------------------------
(* SpecUpdate: one update_task call, with any combination of fields, on    *)
(* any stored table                                                        *)

InitUpdate == InitFrom(UpdateTasks, 1)

NextUpdate == MoreCalls /\ SvcUpdate(PartialBodies)

SpecUpdate == InitUpdate /\ [][NextUpdate]_vars

----------------------------------------------------------------------------
(* SpecPurge: one retention purge over tables whose rows were soft-deleted *)
(* at different times, or not at all                                       *)

PurgeRowsOf(id) ==
    {[Task(id, TaskCreate("a", FALSE, 1, None, u), 0) EXCEPT !.deleted_at = d] :
        u \in Users, d \in {None} \cup 0..MaxTime}

PurgeStores(n) ==
    {store \in [1..n -> UNION {PurgeRowsOf(id) : id \in 1..n}] :
        \A id \in 1..n : store[id].id = id}

InitPurge ==
    /\ \E k \in 0..PurgeTasks : tasks \in PurgeStores(k) /\ nextId = k
    /\ now = MaxTime
    /\ log = <<>>
    /\ depth = 1
    /\ IdleGate

NextPurge == MoreCalls /\ SvcCleanup

SpecPurge == InitPurge /\ [][NextPurge]_vars

----------------------------------------------------------------------------
(* SpecList: one list call, with filters and pagination, over tables whose *)
(* rows differ in owner, completion, priority and deletion                 *)

\* row id was written at time id - 1, with priority 1 (odd ids) or 3 (even
\* ids); a soft delete happened at time 1
ListRowsOf(id) ==
    {[Task(id, TaskCreate("a", c, IF id % 2 = 1 THEN 1 ELSE 3, None, u), id - 1)
         EXCEPT !.deleted_at = d] :
        c \in BOOLEAN, u \in Users, d \in {None, 1}}

ListStores(n) ==
    {store \in [1..n -> UNION {ListRowsOf(id) : id \in 1..n}] :
        \A id \in 1..n : store[id].id = id}

ListQueries ==
    {Query(s, p, None, None, k, l, "created_at", "desc") :
        s \in {NoneS, "completed"}, p \in {NoneS, "high"},
        k \in 0..1, l \in {1, ListTasks}}

InitList ==
    /\ \E k \in 0..ListTasks : tasks \in ListStores(k) /\ nextId = k
    /\ now = 1
    /\ log = <<>>
    /\ depth = 1
    /\ IdleGate

NextList ==
    \/ MoreCalls /\ SvcGetTasks(ListQueries)
    \/ MoreCalls /\ RouteGetTasks({<<u, u>> : u \in Users}, ListQueries)

SpecList == InitList /\ [][NextList]_vars

----------------------------------------------------------------------------
(* SpecCreate: one create_task call, with every combination of supplied    *)
(* and omitted fields and any user_id in the body, on a drawn table         *)

InitCreate == InitFrom(CreateTasks, 1)

NextCreate == MoreCalls /\ SvcCreateFrom

SpecCreate == InitCreate /\ [][NextCreate]_vars

----------------------------------------------------------------------------
(* SpecRemind: one call that plans reminders, directly or from create_task *)
(* or update_task, on tables whose rows carry every kind of notification   *)
(* settings and due dates before and after the reminder time               *)

RemindRowsOf(id) ==
    {[Task(id, TaskCreate("a", FALSE, 1, due, u), 0) EXCEPT !.notification_settings = ns] :
        u \in Users, due \in {None} \cup 0..(MaxTime + 2), ns \in NotificationSettings}

RemindStores(n) ==
    {store \in [1..n -> UNION {RemindRowsOf(id) : id \in 1..n}] :
        \A id \in 1..n : store[id].id = id}

InitRemind ==
    /\ \E k \in 0..RemindTasks : tasks \in RemindStores(k) /\ nextId = k
    /\ now = 1
    /\ log = <<>>
    /\ depth = 1
    /\ IdleGate

NextRemind ==
    \/ MoreCalls /\ ScheduleReminders
    \/ MoreCalls /\ SvcCreate
    \/ MoreCalls /\ SvcUpdate(UpdateBodies)

SpecRemind == InitRemind /\ [][NextRemind]_vars

----------------------------------------------------------------------------
(* The rate limiter as operations.  SpecGate: a run of is_allowed calls of *)
(* a few clients for the endpoint with the smallest limit, while the clock *)
(* moves inside and past its window.                                       *)

Clients == 1..RateClients

RegisterPath == <<Word("api"), Word("auth"), Word("register")>>

\* configured limit and window of the endpoint a path belongs to
LimitOf(path) == get_limit_for_endpoint(get_endpoint_pattern(path))

\* the instants of time.time(): the start, one window later, and a little
\* after each
Clock ==
    {base + d : base \in {0, LimitOf(RegisterPath).window}, d \in 0..ClockSlack}

\* what the history keeps of one is_allowed call
RateEntry(ip, path, at, before, verdict) ==
    [layer |-> "rate", op |-> "is_allowed", ip |-> ip, path |-> path,
     key |-> <<ip, get_endpoint_pattern(path)>>, at |-> at,
     allowed |-> verdict.allowed, info |-> verdict.info,
     before |-> before, after |-> verdict.requests]

RateCall(PathSet) ==
    \E ip \in Clients, path \in PathSet :
        LET verdict == is_allowed(requests, ip, path, now) IN
        /\ requests' = verdict.requests
        /\ Record(RateEntry(ip, path, now, requests, verdict))
        /\ UNCHANGED <<tasks, nextId, now, depth, inflight, users, cache>>

\* the instants at which a window that opened at 0 can be seen: open, at
\* its last instant, and past
WindowEdges ==
    {0, LimitOf(RegisterPath).window, LimitOf(RegisterPath).window + ClockSlack}

\* time.time() moves on
RateTick(Instants) ==
    /\ \E t \in Instants : t > now /\ now' = t
    /\ UNCHANGED <<tasks, nextId, log, depth, requests, inflight, users, cache>>

InitRate(calls) ==
    /\ tasks = <<>>
    /\ nextId = 0
    /\ now = 0
    /\ log = <<>>
    /\ depth = calls
    /\ IdleGate

InitGate == InitRate(RateCalls)

NextGate ==
    \/ MoreCalls /\ RateCall({RegisterPath})
    \/ MoreCalls /\ RateTick(Clock)

SpecGate == InitGate /\ [][NextGate]_vars

----------------------------------------------------------------------------
(* SpecInfo: is_allowed calls and get_rate_limit_info queries of a few     *)
(* clients for one endpoint                                                *)

\* get_rate_limit_info(ip, path): rate_limiter.is_allowed(ip, path)[1]
get_rate_limit_info(reqs, ip, path, at) == is_allowed(reqs, ip, path, at)

RateInfoCall(PathSet) ==
    \E ip \in Clients, path \in PathSet :
        LET verdict == get_rate_limit_info(requests, ip, path, now) IN
        /\ requests' = verdict.requests
        /\ Record([RateEntry(ip, path, now, requests, verdict)
                      EXCEPT !.op = "get_rate_limit_info"])
        /\ UNCHANGED <<tasks, nextId, now, depth, inflight, users, cache>>

InitInfo == InitRate(RateCalls)

NextInfo ==
    \/ MoreCalls /\ RateCall({RegisterPath})
    \/ MoreCalls /\ RateInfoCall({RegisterPath})
    \/ MoreCalls /\ RateTick(WindowEdges)

SpecInfo == InitInfo /\ [][NextInfo]_vars

----------------------------------------------------------------------------
(* SpecPattern: two is_allowed calls for task paths that carry UUIDs in    *)
(* either letter case                                                      *)

UuidSegments ==
    {LowerUuid(n) : n \in 1..PatternUuids} \cup {UpperUuid(n) : n \in 1..PatternUuids}

TaskPaths ==
    {<<Word("api"), u, Word("tasks")>> : u \in UuidSegments}
    \cup {<<Word("api"), u, Word("tasks"), t>> : u \in UuidSegments, t \in UuidSegments}

InitPattern == InitRate(2)

NextPattern == MoreCalls /\ RateCall(TaskPaths)

SpecPattern == InitPattern /\ [][NextPattern]_vars

----------------------------------------------------------------------------
(* SpecConcurrent: several requests inside RateLimitMiddleware at once.    *)
(* __call__ runs without an await from its start to the return of          *)
(* is_allowed, so on the one event loop of uvicorn.run(app) the whole of   *)
(* is_allowed is one step; the requests interleave before it (in the       *)
(* middlewares around it) and after it (in the application or in sending   *)
(* the 429).                                                               *)

\* a request enters the middleware stack
Arrive ==
    /\ Len(inflight) < MaxInflight
    /\ \E ip \in 1..BusyClients :
          inflight' = Append(inflight,
                         [ip |-> ip, path |-> RegisterPath, pc |-> "arrived",
                          allowed |-> FALSE, at |-> None, status |-> 0])
    /\ UNCHANGED <<tasks, nextId, now, log, depth, requests, users, cache>>

\* RateLimitMiddleware.__call__ up to the return of is_allowed
Admit ==
    \E i \in 1..Len(inflight) :
        /\ inflight[i].pc = "arrived"
        /\ LET verdict == is_allowed(requests, inflight[i].ip, inflight[i].path, now) IN
           /\ requests' = verdict.requests
           /\ inflight' = [inflight EXCEPT ![i] =
                             [@ EXCEPT !.pc = IF verdict.allowed THEN "forwarded"
                                              ELSE "rejected",
                                       !.allowed = verdict.allowed, !.at = now]]
        /\ UNCHANGED <<tasks, nextId, now, log, depth, users, cache>>

\* await response(scope, receive, send) with 429, or await self.app(...)
Respond ==
    \E i \in 1..Len(inflight) :
        /\ inflight[i].pc \in {"forwarded", "rejected"}
        /\ inflight' = [inflight EXCEPT ![i] =
                          [@ EXCEPT !.pc = "done",
                                    !.status = IF inflight[i].allowed THEN 200 ELSE 429]]
        /\ UNCHANGED <<tasks, nextId, now, log, depth, requests, users, cache>>

InitConcurrent == InitRate(0)

NextConcurrent ==
    \/ Arrive
    \/ Admit
    \/ Respond
    \/ RateTick(WindowEdges)

SpecConcurrent == InitConcurrent /\ [][NextConcurrent]_vars

----------------------------------------------------------------------------
(* SpecToken: one token is presented to one of the two validators *)

Tokens ==
    [alg : {"HS256", "RS256", "none"},
     key : {BETTER_AUTH_SECRET, "another key"},
     sub : {NoneS, WellFormedUuid, "42"},
     email : {NoneS, "user@example.com", "no address"},
     exp : {None} \cup 0..(TokenTime + 1)]

UtcOffsets == {-TzShift, 0, TzShift}

TokenEntry(op, token, utc_offset, result) ==
    [layer |-> "token", op |-> op, token |-> token, at |-> now,
     utc_offset |-> utc_offset, result |-> result]

ValidateAndDecodeToken ==
    \E token \in Tokens, utc_offset \in UtcOffsets :
        /\ Record(TokenEntry("validate_and_decode_token", token, utc_offset,
                             validate_and_decode_token(token, now, utc_offset)))
        /\ UNCHANGED <<tasks, nextId, now, depth, requests, inflight, users, cache>>

JWTBearerCall ==
    \E token \in Tokens, utc_offset \in UtcOffsets :
        /\ Record(TokenEntry("JWTBearer", token, utc_offset,
                             JWTBearer(token, now, utc_offset)))
        /\ UNCHANGED <<tasks, nextId, now, depth, requests, inflight, users, cache>>

InitToken ==
    /\ tasks = <<>>
    /\ nextId = 0
    /\ now \in 0..TokenTime
    /\ log = <<>>
    /\ depth = 1
    /\ IdleGate

NextToken ==
    \/ MoreCalls /\ ValidateAndDecodeToken
    \/ MoreCalls /\ JWTBearerCall

SpecToken == InitToken /\ [][NextToken]_vars

----------------------------------------------------------------------------
(* SpecLogin: two login attempts against a table of users *)

UserStores(n) ==
    {<<>>} \cup
    UNION {[1..k -> {User(0, e, get_password_hash("right")) : e \in Emails}] : k \in 1..n}

\* the tables the unique email column allows, each row under its own id
UniqueUserStores(n) ==
    {[id \in DOMAIN f |-> [f[id] EXCEPT !.id = id]] :
        f \in {g \in UserStores(n) :
                  \A i, j \in DOMAIN g : i # j => g[i].email # g[j].email}}

LoginEntry(op, email, password, attempt) ==
    [layer |-> "auth", op |-> op, email |-> email, password |-> password,
     before |-> users, user |-> attempt.user, raised |-> attempt.raised,
     steps |-> attempt.steps]

UserServiceLogin ==
    \E email \in Emails, password \in Passwords :
        /\ Record(LoginEntry("UserService.authenticate_user", email, password,
                             authenticate_user(users, email, password)))
        /\ UNCHANGED <<tasks, nextId, now, depth, requests, inflight, users, cache>>

AuthServiceLogin ==
    \E email \in Emails, password \in Passwords :
        /\ Record(LoginEntry("AuthService.authenticate_user", email, password,
                             AuthService_authenticate_user(users, email, password)))
        /\ UNCHANGED <<tasks, nextId, now, depth, requests, inflight, users, cache>>

InitLogin ==
    /\ tasks = <<>>
    /\ nextId = 0
    /\ now = 0
    /\ log = <<>>
    /\ depth = 2
    /\ requests = <<>>
    /\ inflight = <<>>
    /\ users \in UniqueUserStores(LoginUsers)
    /\ cache = <<>>

NextLogin ==
    \/ MoreCalls /\ UserServiceLogin
    \/ MoreCalls /\ AuthServiceLogin

SpecLogin == InitLogin /\ [][NextLogin]_vars

----------------------------------------------------------------------------
(* SpecRegister: register requests, each with a session of its own, whose  *)
(* steps interleave at the awaits of register_user: the lookup of          *)
(* get_user_by_email, and the commit of create_user.                       *)

\* INSERT of a row at commit: the unique index on users.email refuses a
\* second row with the same email
InsertUser(store, email, password) ==
    IF \E id \in DOMAIN store : store[id].email = email
    THEN [raised |-> "IntegrityError", store |-> store]
    ELSE LET id == Len(store) + 1
         IN [raised |-> NoneS,
             store |-> Append(store, User(id, email, get_password_hash(password)))]

\* a register request arrives
RegisterArrive ==
    /\ Len(inflight) < Racers
    /\ \E email \in Emails :
          inflight' = Append(inflight,
                         [email |-> email, pc |-> "arrived", status |-> 0,
                          detail |-> NoneS])
    /\ UNCHANGED <<tasks, nextId, now, log, depth, requests, users, cache>>

\* register_user up to the answer of get_user_by_email
RegisterCheck ==
    \E i \in 1..Len(inflight) :
        /\ inflight[i].pc = "arrived"
        /\ inflight' = [inflight EXCEPT ![i] =
              IF get_user_by_email(users, inflight[i].email) # NoUser
              THEN [@ EXCEPT !.pc = "done", !.status = 400,
                             !.detail = "Email already registered"]
              ELSE [@ EXCEPT !.pc = "checked"]]
        /\ UNCHANGED <<tasks, nextId, now, log, depth, requests, users, cache>>

\* create_user: db.add, await db.commit(), refresh, and the response; an
\* exception of the commit leaves register_user as it is
RegisterCommit ==
    \E i \in 1..Len(inflight) :
        /\ inflight[i].pc = "checked"
        /\ LET done == InsertUser(users, inflight[i].email, "right") IN
           /\ users' = done.store
           /\ inflight' = [inflight EXCEPT ![i] =
                 IF done.raised = NoneS
                 THEN [@ EXCEPT !.pc = "done", !.status = 200]
                 ELSE [@ EXCEPT !.pc = "done", !.status = 500, !.detail = done.raised]]
        /\ UNCHANGED <<tasks, nextId, now, log, depth, requests, cache>>

InitRegister ==
    /\ tasks = <<>>
    /\ nextId = 0
    /\ now = 0
    /\ log = <<>>
    /\ depth = 0
    /\ requests = <<>>
    /\ inflight = <<>>
    /\ users \in UniqueUserStores(LoginUsers)
    /\ cache = <<>>

NextRegister ==
    \/ RegisterArrive
    \/ RegisterCheck
    \/ RegisterCommit

SpecRegister == InitRegister /\ [][NextRegister]_vars

----------------------------------------------------------------------------
(* SpecToggles: toggle requests, each with a session of its own, whose     *)
(* steps interleave at the awaits of toggle_task_completion: the SELECT of *)
(* get_task_by_id, and the commit.  The table the run started from stays   *)
(* in the history.                                                         *)

\* a toggle request arrives
ToggleArrive ==
    /\ Len(inflight) < Togglers
    /\ \E cu \in Users, tid \in Addressable :
          inflight' = Append(inflight,
                         [caller |-> cu, tid |-> tid, pc |-> "arrived",
                          found |-> FALSE, seen |-> FALSE])
    /\ UNCHANGED <<tasks, nextId, now, log, depth, requests, users, cache>>

\* task = await self.get_task_by_id(task_id, current_user): the session
\* holds the row as it was read; without a row the method returns None
ToggleRead ==
    \E i \in 1..Len(inflight) :
        /\ inflight[i].pc = "arrived"
        /\ LET task == get_task_by_id(tasks, inflight[i].tid, inflight[i].caller) IN
           inflight' = [inflight EXCEPT ![i] =
              IF Found(task)
              THEN [@ EXCEPT !.pc = "read", !.found = TRUE, !.seen = task.is_completed]
              ELSE [@ EXCEPT !.pc = "done"]]
        /\ UNCHANGED <<tasks, nextId, now, log, depth, requests, users, cache>>

\* task.is_completed = not task.is_completed on the row as read, and
\* await self.db_session.commit(): UPDATE tasks SET is_completed = ...
\* WHERE id = ...; then refresh and the conversion of the result
ToggleCommit ==
    \E i \in 1..Len(inflight) :
        /\ inflight[i].pc = "read"
        /\ tasks' = [tasks EXCEPT ![inflight[i].tid].is_completed = ~inflight[i].seen]
        /\ inflight' = [inflight EXCEPT ![i].pc = "done"]
        /\ UNCHANGED <<nextId, now, log, depth, requests, users, cache>>

InitToggles ==
    /\ \E k \in 0..TripTasks : tasks \in Stores(k) /\ nextId = k
    /\ now = 1
    /\ log = <<[layer |-> "start", op |-> "start", before |-> tasks]>>
    /\ depth = 1
    /\ IdleGate

NextToggles ==
    \/ ToggleArrive
    \/ ToggleRead
    \/ ToggleCommit

SpecToggles == InitToggles /\ [][NextToggles]_vars

----------------------------------------------------------------------------
(* SpecCache: a run of CacheService calls from the empty cache, the clock  *)
(* moving in between                                                       *)

CacheKeys == {<<"t", "1">>, <<"p", "1">>}
CachePatterns == {<<"t">>, <<"1">>, <<"z">>}
CacheValues == {PyInt, PyTuple, PyNone}
CacheTtls == {None, 0, 1}

\* instants a little after the start and a little after the default ttl
CacheClock == {base + d : base \in {0, default_ttl}, d \in 0..ClockSlack}

CacheEntry(op, key, value, ttl, pattern, out) ==
    [layer |-> "cache", op |-> op, key |-> key, value |-> value, ttl |-> ttl,
     pattern |-> pattern, at |-> now, ret |-> out.ret,
     before |-> cache, after |-> out.cache]

CacheEffect(e, out) ==
    /\ cache' = out.cache
    /\ Record(e)
    /\ UNCHANGED <<tasks, nextId, now, depth, requests, inflight, users>>

CacheSet ==
    \E key \in CacheKeys, value \in CacheValues, ttl \in CacheTtls :
        LET out == cache_set(cache, key, value, ttl, now)
        IN CacheEffect(CacheEntry("set", key, value, ttl, <<>>, out), out)

CacheGet ==
    \E key \in CacheKeys :
        LET out == cache_get(cache, key, now)
        IN CacheEffect(CacheEntry("get", key, PyNone, None, <<>>, out), out)

CacheDelete ==
    \E key \in CacheKeys :
        LET out == cache_delete(cache, key)
        IN CacheEffect(CacheEntry("delete", key, PyNone, None, <<>>, out), out)

CacheClear ==
    LET out == cache_clear(cache)
    IN CacheEffect(CacheEntry("clear", <<>>, PyNone, None, <<>>, out), out)

CacheInvalidate ==
    \E pattern \in CachePatterns :
        LET out == invalidate_pattern(cache, pattern)
        IN CacheEffect(CacheEntry("invalidate_pattern", <<>>, PyNone, None, pattern, out), out)

\* datetime.utcnow() moves on
CacheTick(Instants) ==
    /\ \E t \in Instants : t > now /\ now' = t
    /\ UNCHANGED <<tasks, nextId, log, depth, requests, inflight, users, cache>>

InitCache == InitRate(CacheCalls)

NextCache ==
    \/ MoreCalls /\ CacheSet
    \/ MoreCalls /\ CacheGet
    \/ MoreCalls /\ CacheDelete
    \/ MoreCalls /\ CacheClear
    \/ MoreCalls /\ CacheInvalidate
    \/ MoreCalls /\ CacheTick(CacheClock)

SpecCache == InitCache /\ [][NextCache]_vars

----------------------------------------------------------------------------
(* SpecCached: calls of one function decorated with cached(ttl=CachedTtl)  *)

CachedArgs == {<<1, 2>>, <<3, 4>>}

CachedCall ==
    \E args \in CachedArgs, result \in CacheValues :
        LET out == cached_wrapper(cache, CachedTtl, "func", "f", args, result, now)
        IN /\ cache' = out.cache
           /\ Record([layer |-> "cached", op |-> "wrapper", args |-> args, at |-> now,
                      result |-> result, invoked |-> out.invoked, ret |-> out.ret,
                      before |-> cache, after |-> out.cache])
           /\ UNCHANGED <<tasks, nextId, now, depth, requests, inflight, users>>

InitCached == InitRate(CachedCalls)

NextCached ==
    \/ MoreCalls /\ CachedCall
    \/ MoreCalls /\ CacheTick(0..(CachedTtl + ClockSlack))

SpecCached == InitCached /\ [][NextCached]_vars

----------------------------------------------------------------------------
(* SpecFilter: one get_tasks call with a status filter, or with priority   *)
(* and due-date filters, over tables whose rows differ in owner,           *)
(* completion, priority, due date and deletion                             *)

\* the (priority, due_date, deleted_at) of the rows: no due date, due at 0,
\* due at 1, and a soft-deleted row due at 0
FilterShapes == {<<1, None, None>>, <<2, 0, None>>, <<3, 1, None>>, <<1, 0, 1>>}

FilterRowsOf(id) ==
    {[Task(id, TaskCreate("a", c, sh[1], sh[2], u), 0) EXCEPT !.deleted_at = sh[3]] :
        c \in BOOLEAN, u \in Users, sh \in FilterShapes}

FilterStores(n) ==
    {store \in [1..n -> UNION {FilterRowsOf(id) : id \in 1..n}] :
        \A id \in 1..n : store[id].id = id}

\* the status values get_tasks tells apart, and one it does not know
StatusQueries ==
    {Query(st, NoneS, None, None, 0, 100, "created_at", "desc") :
        st \in {NoneS, "all", "completed", "pending", "done"}}

\* the priority names of priority_map and one outside it, each with every
\* pair of due-date bounds
PriorityDueQueries ==
    {Query(NoneS, p, from, to, 0, 100, "created_at", "desc") :
        p \in {NoneS, "low", "medium", "high", "urgent"},
        from \in {None} \cup 0..MaxTime, to \in {None} \cup 0..MaxTime}

InitFilter ==
    /\ \E k \in 0..FilterTasks : tasks \in FilterStores(k) /\ nextId = k
    /\ now = 1
    /\ log = <<>>
    /\ depth = 1
    /\ IdleGate

NextFilter == MoreCalls /\ SvcGetTasks(StatusQueries \cup PriorityDueQueries)

SpecFilter == InitFilter /\ [][NextFilter]_vars

----------------------------------------------------------------------------
(* SpecSort: the sorting step of get_user_tasks applied to every list of   *)
(* up to SortTasks tasks with and without due dates                        *)

SortRowsOf(id) ==
    {Task(id, TaskCreate("a", FALSE, 1, due, 1), 0) : due \in {None} \cup 0..MaxTime}

SortStores(n) ==
    {store \in [1..n -> UNION {SortRowsOf(id) : id \in 1..n}] :
        \A id \in 1..n : store[id].id = id}

SortQueries ==
    {Query(NoneS, NoneS, None, None, 0, 100, by, order) :
        by \in {"created_at", "updated_at", "due_date", "priority"},
        order \in {"asc", "desc"}}

\* filtered_tasks.sort(...) on the tasks in the order `scan`
ApplySort ==
    \E q \in SortQueries, scan \in ScanOrders(tasks) :
        LET filtered_tasks == [i \in 1..Len(scan) |-> tasks[scan[i]]]
            out == [Out(tasks) EXCEPT
                       !.rows = scan,
                       !.page = RouteSort(filtered_tasks, q.sort_by, q.sort_order)]
        IN /\ Effect(Entry("sort", "sort", None, None, None, q, tasks, out), out)
           /\ UNCHANGED nextId

InitSort ==
    /\ \E k \in 0..SortTasks : tasks \in SortStores(k) /\ nextId = k
    /\ now = 1
    /\ log = <<>>
    /\ depth = 1
    /\ IdleGate

NextSort == MoreCalls /\ ApplySort

SpecSort == InitSort /\ [][NextSort]_vars

----------------------------------------------------------------------------
(* SpecPages: two successive list requests of a user for their own tasks,  *)
(* sorted by creation time, over an unchanging table                       *)

PageQueries ==
    {Query(NoneS, NoneS, None, None, k, l, "created_at", "asc") :
        k \in 0..PageTasks, l \in 1..PageTasks}

InitPages ==
    /\ \E k \in 0..PageTasks : tasks \in ListStores(k) /\ nextId = k
    /\ now = 1
    /\ log = <<>>
    /\ depth = 2
    /\ IdleGate

NextPages ==
    MoreCalls /\ RouteGetTasks({<<u, u>> : u \in Users}, PageQueries)

SpecPages == InitPages /\ [][NextPages]_vars

----------------------------------------------------------------------------
(* Properties.  The history's entries carry the table before and after     *)
(* each call, so every property below is a predicate on the history.       *)

SoftDeleted(store, id) == id \in DOMAIN store /\ store[id].deleted_at # None

\* the ids of the tasks a list call returned
PageIds(e) == [i \in 1..Len(e.page) |-> e.page[i].id]

\* a and b agree in every field other than the three timestamps
SameButTimestamps(a, b) ==
    /\ Found(a)
    /\ Found(b)
    /\ DOMAIN a = DOMAIN b
    /\ \A f \in DOMAIN a \ {"created_at", "updated_at", "deleted_at"} : a[f] = b[f]

\* a and b agree in every field other than updated_at
SameButUpdatedAt(a, b) ==
    /\ Found(a)
    /\ Found(b)
    /\ DOMAIN a = DOMAIN b
    /\ \A f \in DOMAIN a \ {"updated_at"} : a[f] = b[f]

\* the listing a list query promises: the user's active tasks that pass the
\* filters, sorted by the requested field and direction
Listing(store, user, q) ==
    LET scan == CHOOSE sq \in ScanOrders(store) : TRUE
        keep(id) == TaskFilter(store[id], user, q.status, q.priority,
                               q.due_date_from, q.due_date_to)
        ids == SelectSeq(scan, keep)
    IN RouteSort([i \in 1..Len(ids) |-> store[ids[i]]], q.sort_by, q.sort_order)

ListingIds(store, user, q) ==
    LET listing == Listing(store, user, q)
    IN [i \in 1..Len(listing) |-> listing[i].id]

\* a list call, at either layer
IsList(e) ==
    \/ e.layer = "svc" /\ e.op = "get_tasks"
    \/ e.layer = "handler" /\ e.op = "get_user_tasks"

\* a user listing their own tasks through the route function
OwnList(e) ==
    /\ e.layer = "handler"
    /\ e.op = "get_user_tasks"
    /\ e.caller \in Users
    /\ e.owner = e.caller

\* a call that addresses one task on behalf of a user (route functions: on
\* the user's own path)
IsItemCall(e) ==
    /\ e.caller \in Users
    /\ \/ /\ e.layer = "svc"
          /\ e.op \in {"get_task_by_id", "update_task", "toggle_task_completion",
                       "delete_task", "restore_task"}
       \/ /\ e.layer = "handler"
          /\ e.owner = e.caller
          /\ e.op \in {"get_user_task", "update_user_task",
                       "toggle_task_completion", "delete_user_task",
                       "restore_user_task"}

\* the not-found outcome: None / False from the service, 404 from a route
NotFound(e) ==
    /\ ~e.raised
    /\ ~e.committed
    /\ ~e.ok
    /\ e.ret = NoTask
    /\ e.layer = "handler" => e.status = 404

\* the request carried a bearer token that is valid for its subject
ValidBearer(a) == a.scheme = "Bearer" /\ a.token = "valid"

----------------------------------------------------------------------------
\* C1: a list call under owner V, whatever its filters and pagination,
\* selects and returns only tasks whose owner is V: never a task of another
\* user.
C1_OwnerIsolationOnList ==
    (HasLast /\ IsList(Last)) =>
        /\ \A i \in 1..Len(Last.rows) :
              Last.before[Last.rows[i]].user_id = Last.caller
        /\ \A i \in 1..Len(Last.page) : Last.page[i].user_id = Last.caller

\* V lists and gets rows selected while another user's active task passes
\* the same filters
C1_Witness ==
    /\ HasLast
    /\ Last.layer = "svc"
    /\ Last.op = "get_tasks"
    /\ Last.caller \in Users
    /\ Len(Last.rows) > 0
    /\ \E id \in DOMAIN Last.before :
          /\ Last.before[id].user_id # Last.caller
          /\ TaskFilter(Last.before[id], Last.before[id].user_id,
                        Last.args.status, Last.args.priority,
                        Last.args.due_date_from, Last.args.due_date_to)

\* C2: a request with a valid token of user A to any task endpoint under
\* path owner B, B different from A, is answered 403, whoever B is and
\* whatever the addressed task is.
C2_ForbiddenOnOwnerMismatch ==
    (/\ HasLast
     /\ Last.layer = "http"
     /\ ValidBearer(Last.args.authorization)
     /\ Last.args.authorization.sub # Last.owner) => Last.status = 403

\* A's valid token on B's stats path: the request never reaches the stats
\* route function
C2_Witness ==
    /\ HasLast
    /\ Last.layer = "http"
    /\ ValidBearer(Last.args.authorization)
    /\ Last.args.authorization.sub # Last.owner
    /\ Last.args.path[Len(Last.args.path)] = LitSeg("stats")
    /\ Last.op = "get_user_task"
    /\ Last.status = 422

\* C3: a request without an Authorization header, with another scheme, or
\* with a malformed or expired token is answered 401, and no TaskService
\* method has been called.
C3_UnauthenticatedFirst ==
    (/\ HasLast
     /\ Last.layer = "http"
     /\ ~ValidBearer(Last.args.authorization)) =>
        /\ Last.status = 401
        /\ Last.calls = 0

\* no Authorization header on DELETE of a stored task: the route function
\* runs with current_user = None and ends in an unhandled exception
C3_Witness ==
    /\ HasLast
    /\ Last.layer = "http"
    /\ Last.args.authorization = NoAuthorization
    /\ Last.op = "delete_user_task"
    /\ Last.tid \in DOMAIN Last.before
    /\ Last.caller = None
    /\ Last.status = 500

\* C4: whenever a call ends 401 or 403, no TaskService method was invoked
\* and the table is the same after the call as before it.
C4_AuthFailuresShortCircuit ==
    (HasLast /\ Last.status \in {401, 403}) =>
        /\ Last.calls = 0
        /\ Last.after = Last.before

\* a user asks, under another owner's path, to delete a task that is their
\* own and active, and is refused
C4_Witness ==
    /\ HasLast
    /\ Last.layer = "handler"
    /\ Last.op = "delete_user_task"
    /\ Last.status = 403
    /\ Last.tid \in DOMAIN Last.before
    /\ Last.before[Last.tid].user_id = Last.caller
    /\ Last.before[Last.tid].deleted_at = None

\* C5: get, update, toggle, delete and restore by caller A on a task id
\* that is not stored, or that is stored under another owner, end in the
\* same not-found outcome, and the table is left as it was.
C5_ForeignTaskIsNotFound ==
    (/\ HasLast
     /\ IsItemCall(Last)
     /\ \/ Last.tid \notin DOMAIN Last.before
        \/ Last.before[Last.tid].user_id # Last.caller) =>
        /\ NotFound(Last)
        /\ Last.after = Last.before

\* A toggles, on A's own path, an active task that belongs to B
C5_Witness ==
    /\ HasLast
    /\ Last.layer = "handler"
    /\ Last.op = "toggle_task_completion"
    /\ IsItemCall(Last)
    /\ Last.tid \in DOMAIN Last.before
    /\ Last.before[Last.tid].user_id # Last.caller
    /\ Last.before[Last.tid].deleted_at = None
    /\ Last.status = 404

\* C6: while a task is soft-deleted, get_task_by_id does not return it,
\* get_tasks does not select it, and update_task and toggle_task_completion
\* on it return None and leave the table unchanged.
C6_SoftDeletedOutsideActive ==
    (HasLast /\ Last.layer = "svc") =>
        /\ (Last.op = "get_task_by_id" /\ SoftDeleted(Last.before, Last.tid)) =>
              Last.ret = NoTask
        /\ (/\ Last.op \in {"update_task", "toggle_task_completion"}
            /\ SoftDeleted(Last.before, Last.tid)) =>
              /\ ~Last.raised
              /\ Last.ret = NoTask
              /\ Last.after = Last.before
        /\ Last.op = "get_tasks" =>
              \A i \in 1..Len(Last.rows) : ~SoftDeleted(Last.before, Last.rows[i])

\* the owner updates the completion flag of their soft-deleted, pending task
C6_Witness ==
    /\ HasLast
    /\ Last.layer = "svc"
    /\ Last.op = "update_task"
    /\ SoftDeleted(Last.before, Last.tid)
    /\ Last.before[Last.tid].user_id = Last.caller
    /\ ~Last.before[Last.tid].is_completed
    /\ "is_completed" \in DOMAIN Last.args

\* delete_task, restore_task and get_task_by_id by one caller on one task,
\* the delete having succeeded
RoundTrip ==
    /\ Len(log) = 3
    /\ \A i \in 1..3 : /\ log[i].layer = "svc"
                       /\ log[i].caller = log[1].caller
                       /\ log[i].tid = log[1].tid
    /\ log[1].op = "delete_task"
    /\ log[1].ok
    /\ log[2].op = "restore_task"
    /\ log[3].op = "get_task_by_id"

\* C7: delete_task, then restore_task, then get_task_by_id on an active
\* task of the caller: every call completes and the get returns the
\* original task, equal in every field but the timestamps, deleted_at null.
C7_DeleteRestoreRoundTrip ==
    RoundTrip =>
        /\ ~log[2].raised
        /\ SameButTimestamps(log[3].ret, log[1].before[log[1].tid])
        /\ log[3].ret.deleted_at = None

\* the restore of the round trip ends in an exception
C7_Witness ==
    /\ RoundTrip
    /\ log[2].committed
    /\ log[2].raised

\* what the round trip does keep: the row the get finds is the original
\* but for deleted_at set and cleared
RoundTripStored ==
    RoundTrip =>
        /\ SameButTimestamps(log[3].ret, log[1].before[log[1].tid])
        /\ log[3].ret.deleted_at = None

\* a toggle_task_completion that found its task
Toggled(e) ==
    /\ e.layer = "svc"
    /\ e.op = "toggle_task_completion"
    /\ e.committed

\* C8: one toggle on an active task of the caller returns the task with
\* is_completed negated and no other field changed; two successive toggles
\* return a task equal to the original in every field except updated_at.
C8_ToggleInvolution ==
    /\ (HasLast /\ Toggled(Last)) =>
          /\ ~Last.raised
          /\ SameButUpdatedAt(Last.ret,
                [Last.before[Last.tid] EXCEPT !.is_completed = ~@])
    /\ (/\ Len(log) >= 2
        /\ Toggled(Last)
        /\ Toggled(log[Len(log) - 1])
        /\ log[Len(log) - 1].tid = Last.tid
        /\ log[Len(log) - 1].caller = Last.caller) =>
          /\ ~Last.raised
          /\ SameButUpdatedAt(Last.ret, log[Len(log) - 1].before[Last.tid])

\* a toggle flips the stored flag and ends in an exception
C8_Witness ==
    /\ HasLast
    /\ Toggled(Last)
    /\ Last.after[Last.tid].is_completed = ~Last.before[Last.tid].is_completed
    /\ Last.raised

\* what toggling does keep: the stored row changes in is_completed only,
\* and a second toggle stores the original row again
ToggleStored ==
    /\ (HasLast /\ Toggled(Last)) =>
          Last.after = [Last.before EXCEPT ![Last.tid].is_completed = ~@]
    /\ (/\ Len(log) >= 2
        /\ Toggled(Last)
        /\ Toggled(log[Len(log) - 1])
        /\ log[Len(log) - 1].tid = Last.tid) =>
          Last.after = log[Len(log) - 1].before

\* two successive requests of one user for pages 1 and 2 of their own
\* listing: (skip = 0, limit = k) and (skip = k, limit = k)
TwoPages ==
    /\ Len(log) = 2
    /\ OwnList(log[1])
    /\ OwnList(log[2])
    /\ log[2].caller = log[1].caller
    /\ log[1].args.skip = 0
    /\ log[2].args.skip = log[1].args.limit
    /\ log[2].args.limit = log[1].args.limit

\* C9: the pages (skip = 0, limit = k) and (skip = k, limit = k) of a
\* user's listing are both served, and one after the other they are the
\* first 2k tasks of the full sorted listing: no overlap, no gap.
C9_PagesPartitionListing ==
    TwoPages =>
        /\ log[1].status = 200
        /\ log[2].status = 200
        /\ PageIds(log[1]) \o PageIds(log[2]) =
              Slice(ListingIds(log[1].before, log[1].caller, log[1].args),
                    0, 2 * log[1].args.limit)

\* the second page of a two-task listing, k = 1, is not served
C9_Witness ==
    /\ TwoPages
    /\ log[1].args.limit = 1
    /\ Len(Listing(log[1].before, log[1].caller, log[1].args)) = 2
    /\ log[2].status = 500

\* C10: the list endpoint returns the slice [skip, skip + limit) of the
\* caller's active tasks after filtering and sorting.
C10_SliceAfterFilterAndSort ==
    (HasLast /\ OwnList(Last)) =>
        /\ Last.status = 200
        /\ PageIds(Last) =
              Slice(ListingIds(Last.before, Last.caller, Last.args),
                    Last.args.skip, Last.args.skip + Last.args.limit)

\* a request whose slice of the listing is not empty is not served
C10_Witness ==
    /\ HasLast
    /\ OwnList(Last)
    /\ Last.args.skip < Len(Listing(Last.before, Last.caller, Last.args))
    /\ Last.status = 500

\* what the list endpoint does keep: a skip at or beyond the number of
\* matching tasks is answered 200 with an empty page
SkipBeyondIsEmptyPage ==
    (/\ HasLast
     /\ OwnList(Last)
     /\ Last.args.skip >= Len(Listing(Last.before, Last.caller, Last.args))) =>
        /\ Last.status = 200
        /\ Last.page = <<>>

----------------------------------------------------------------------------
\* a service call of the owner on their own stored task
OwnTaskCall(e, op) ==
    /\ e.layer = "svc"
    /\ e.op = op
    /\ e.tid \in DOMAIN e.before
    /\ e.before[e.tid].user_id = e.caller

\* C15: hard_delete_task on a task of the caller, active or soft-deleted,
\* returns true and the task is stored no more.
C15_HardDeleteRemoves ==
    (HasLast /\ OwnTaskCall(Last, "hard_delete_task")) =>
        /\ Last.ok
        /\ Last.tid \notin DOMAIN Last.after

\* hard_delete_task on an active task of the caller returns true and the
\* row is still stored
C15_Witness ==
    /\ HasLast
    /\ OwnTaskCall(Last, "hard_delete_task")
    /\ Last.before[Last.tid].deleted_at = None
    /\ Last.ok
    /\ Last.tid \in DOMAIN Last.after

\* the rows a purge at time e.at with e.args.days_retained must remove
Expired(e) ==
    {id \in DOMAIN e.before :
        /\ e.before[id].deleted_at # None
        /\ e.before[id].deleted_at < e.at - e.args.days_retained}

\* C16: cleanup_soft_deleted_tasks removes, whoever owns them, exactly the
\* rows whose deleted_at is set and older than now minus days_retained,
\* returns their number, and leaves every other row stored and unchanged.
C16_PurgeRemovesExactlyExpired ==
    (HasLast /\ Last.op = "cleanup_soft_deleted_tasks") =>
        /\ DOMAIN Last.after = DOMAIN Last.before \ Expired(Last)
        /\ \A id \in DOMAIN Last.after : Last.after[id] = Last.before[id]
        /\ Last.count = Cardinality(Expired(Last))

\* a purge that removes one row and keeps a soft-deleted row that sits
\* exactly on the cutoff, and an active one
C16_Witness ==
    /\ HasLast
    /\ Last.op = "cleanup_soft_deleted_tasks"
    /\ Last.count = 1
    /\ \E id \in DOMAIN Last.after :
          Last.after[id].deleted_at = Last.at - Last.args.days_retained
    /\ \E id \in DOMAIN Last.after : Last.after[id].deleted_at = None

\* C17: delete_task on a task that is not stored or already soft-deleted
\* returns false, and restore_task on a task that is not stored or active
\* returns None; neither changes the table.
C17_WrongStateTransitionsRejected ==
    (HasLast /\ Last.layer = "svc" /\ Last.caller \in Users) =>
        /\ (/\ Last.op = "delete_task"
            /\ \/ Last.tid \notin DOMAIN Last.before
               \/ Last.before[Last.tid].deleted_at # None) =>
              /\ ~Last.raised
              /\ ~Last.ok
              /\ Last.after = Last.before
        /\ (/\ Last.op = "restore_task"
            /\ \/ Last.tid \notin DOMAIN Last.before
               \/ Last.before[Last.tid].deleted_at = None) =>
              /\ ~Last.raised
              /\ Last.ret = NoTask
              /\ Last.after = Last.before

\* the owner deletes their task a second time, later than the first
C17_Witness ==
    /\ HasLast
    /\ OwnTaskCall(Last, "delete_task")
    /\ Last.before[Last.tid].deleted_at # None
    /\ Last.before[Last.tid].deleted_at < Last.at
    /\ ~Last.ok

\* C18: update_task on an active task of the caller sets exactly the
\* fields the request carries to the supplied values; every other field of
\* the task, and every other task, keeps its value.
C18_PartialUpdate ==
    (/\ HasLast
     /\ OwnTaskCall(Last, "update_task")
     /\ Last.before[Last.tid].deleted_at = None) =>
        /\ Last.committed
        /\ DOMAIN Last.after = DOMAIN Last.before
        /\ \A id \in DOMAIN Last.before \ {Last.tid} :
              Last.after[id] = Last.before[id]
        /\ \A f \in DOMAIN Last.before[Last.tid] :
              Last.after[Last.tid][f] =
                 IF f \in DOMAIN Last.args THEN Last.args[f]
                 ELSE Last.before[Last.tid][f]

\* an update that sets the title to null: nothing is stored
C18_Witness ==
    /\ HasLast
    /\ OwnTaskCall(Last, "update_task")
    /\ Last.before[Last.tid].deleted_at = None
    /\ DOMAIN Last.args = {"title"}
    /\ Last.args.title = NoneS
    /\ Last.raised
    /\ Last.after = Last.before

\* what update_task does keep: a request that sets no NOT NULL column to
\* null is stored field by field, and nothing else changes
PartialUpdateStored ==
    (/\ HasLast
     /\ OwnTaskCall(Last, "update_task")
     /\ Last.before[Last.tid].deleted_at = None
     /\ ~ViolatesNotNull(Last.args)) =>
        /\ Last.committed
        /\ DOMAIN Last.after = DOMAIN Last.before
        /\ \A id \in DOMAIN Last.before \ {Last.tid} :
              Last.after[id] = Last.before[id]
        /\ \A f \in DOMAIN Last.before[Last.tid] :
              Last.after[Last.tid][f] =
                 IF f \in DOMAIN Last.args THEN Last.args[f]
                 ELSE Last.before[Last.tid][f]

\* an update_task that found its task
Updated(e) ==
    /\ e.layer = "svc"
    /\ e.op = "update_task"
    /\ e.committed

\* C19: after a successful update_task the task's updated_at is the time
\* of the update, later than its value before and not before created_at.
C19_UpdateBumpsUpdatedAt ==
    (HasLast /\ Updated(Last)) =>
        /\ Last.after[Last.tid].updated_at = Last.at
        /\ Last.after[Last.tid].updated_at > Last.before[Last.tid].updated_at
        /\ Last.after[Last.tid].updated_at >= Last.after[Last.tid].created_at

\* an update made after the task was written leaves updated_at as it was
C19_Witness ==
    /\ HasLast
    /\ Updated(Last)
    /\ "is_completed" \in DOMAIN Last.args
    /\ Last.before[Last.tid].updated_at < Last.at
    /\ Last.after[Last.tid].updated_at = Last.before[Last.tid].updated_at

\* C20: a task is created with version 1, every successful update_task
\* adds exactly one to version, and no call lowers the version of a task.
C20_VersionMonotonic ==
    HasLast =>
        /\ (Last.op = "create_task" /\ Last.committed) =>
              Last.after[Last.tid].version = 1
        /\ Updated(Last) =>
              Last.after[Last.tid].version = Last.before[Last.tid].version + 1
        /\ \A id \in DOMAIN Last.before \cap DOMAIN Last.after :
              Last.after[id].version >= Last.before[id].version

\* a successful update leaves version as it was
C20_Witness ==
    /\ HasLast
    /\ Updated(Last)
    /\ "is_completed" \in DOMAIN Last.args
    /\ Last.after[Last.tid].version = Last.before[Last.tid].version

\* what the version counter does keep: creation with 1, never lowered
VersionNeverLowered ==
    HasLast =>
        /\ (Last.op = "create_task" /\ Last.committed) =>
              Last.after[Last.tid].version = 1
        /\ \A id \in DOMAIN Last.before \cap DOMAIN Last.after :
              Last.after[id].version >= Last.before[id].version

\* a get_tasks call of a user with the given restrictions in its query
FilterCall(e) ==
    /\ e.layer = "svc"
    /\ e.op = "get_tasks"
    /\ e.caller \in Users

\* the caller's active tasks
OwnActive(e) ==
    {id \in DOMAIN e.before :
        /\ e.before[id].user_id = e.caller
        /\ e.before[id].deleted_at = None}

\* the tasks of the caller a status value asks for
WithStatus(e) ==
    {id \in OwnActive(e) :
        /\ e.args.status = "completed" => e.before[id].is_completed
        /\ e.args.status = "pending" => ~e.before[id].is_completed}

\* the ids in s are exactly the set S, each once
ExactlyOnce(s, S) == Range(s) = S /\ Len(s) = Cardinality(S)

\* C11: with status "completed" the list returns exactly the caller's
\* active tasks that are completed, with "pending" exactly those that are
\* not, and with status unset or "all" all of them.
C11_StatusFilter ==
    (/\ HasLast
     /\ FilterCall(Last)
     /\ Last.args \in StatusQueries
     /\ Last.args.status \in {NoneS, "all", "completed", "pending"}) =>
        /\ ~Last.raised
        /\ ExactlyOnce(PageIds(Last), WithStatus(Last))

\* the caller has three active tasks with flags true, false, false and
\* asks for the completed ones: one row is selected and the call raises
C11_Witness ==
    /\ HasLast
    /\ FilterCall(Last)
    /\ Last.args \in StatusQueries
    /\ Last.args.status = "completed"
    /\ Cardinality(OwnActive(Last)) = 3
    /\ Cardinality({id \in OwnActive(Last) : Last.before[id].is_completed}) = 1
    /\ Len(Last.rows) = 1
    /\ Last.raised

\* what the status filter does keep: the rows the query selects are the
\* ones the status value asks for (any value other than "completed" and
\* "pending" selects every active task of the caller)
StatusSelection ==
    (HasLast /\ FilterCall(Last) /\ Last.args \in StatusQueries) =>
        ExactlyOnce(Last.rows, WithStatus(Last))

\* the stored priority a priority name stands for
PriorityOf(name) ==
    CASE name = "low" -> 1 [] name = "medium" -> 2 [] name = "high" -> 3
      [] OTHER -> None

\* the tasks of the caller the priority and due-date parameters ask for
WithPriorityAndDue(e) ==
    {id \in OwnActive(e) :
        /\ PriorityOf(e.args.priority) # None =>
              e.before[id].priority = PriorityOf(e.args.priority)
        /\ e.args.due_date_from # None =>
              /\ e.before[id].due_date # None
              /\ e.before[id].due_date >= e.args.due_date_from
        /\ e.args.due_date_to # None =>
              /\ e.before[id].due_date # None
              /\ e.before[id].due_date <= e.args.due_date_to}

\* C12: the list returns, without error, exactly the caller's active
\* tasks that have the stored priority a known priority name stands for
\* (any other name restricts nothing) and a due date inside the inclusive
\* bounds supplied; a task without due date is left out when a bound is
\* supplied.
C12_PriorityAndDueFilters ==
    (HasLast /\ FilterCall(Last) /\ Last.args \in PriorityDueQueries) =>
        /\ ~Last.raised
        /\ ExactlyOnce(PageIds(Last), WithPriorityAndDue(Last))

\* a task due exactly at due_date_from is selected while the caller's task
\* without due date is not, and the call raises
C12_Witness ==
    /\ HasLast
    /\ FilterCall(Last)
    /\ Last.args \in PriorityDueQueries
    /\ Last.args.priority = "urgent"
    /\ Last.args.due_date_from # None
    /\ \E id \in Range(Last.rows) :
          Last.before[id].due_date = Last.args.due_date_from
    /\ \E id \in OwnActive(Last) \ Range(Last.rows) :
          Last.before[id].due_date = None
    /\ Last.raised

\* what the priority and due-date filters do keep: the rows the query
\* selects are the ones the parameters ask for
PriorityDueSelection ==
    (HasLast /\ FilterCall(Last) /\ Last.args \in PriorityDueQueries) =>
        ExactlyOnce(Last.rows, WithPriorityAndDue(Last))

\* a sort by due date, in the given direction
DueDateSort(e, order) ==
    /\ e.op = "sort"
    /\ e.args.sort_by = "due_date"
    /\ e.args.sort_order = order

\* in the list s no task without due date stands before one with a due date
NullsLast(s) ==
    \A i, j \in 1..Len(s) :
        (i < j /\ s[i].due_date = None) => s[j].due_date = None

\* the tasks of s that have a due date stand in ascending order
DatedAscending(s) ==
    \A i, j \in 1..Len(s) :
        (i < j /\ s[i].due_date # None /\ s[j].due_date # None) =>
            s[i].due_date <= s[j].due_date

\* the tasks of s that have a due date stand in descending order
DatedDescending(s) ==
    \A i, j \in 1..Len(s) :
        (i < j /\ s[i].due_date # None /\ s[j].due_date # None) =>
            s[i].due_date >= s[j].due_date

\* C13: sorted by due_date, the tasks without due date come after all the
\* tasks with one, ascending and descending alike, and the tasks with a
\* due date stand in ascending, respectively descending, order.
C13_DueDateNullsLast ==
    HasLast =>
        /\ DueDateSort(Last, "asc") =>
              NullsLast(Last.page) /\ DatedAscending(Last.page)
        /\ DueDateSort(Last, "desc") =>
              NullsLast(Last.page) /\ DatedDescending(Last.page)

\* a descending sort that puts a task without due date first and a task
\* with a due date after it
C13_Witness ==
    /\ HasLast
    /\ DueDateSort(Last, "desc")
    /\ Len(Last.page) >= 2
    /\ Last.page[1].due_date = None
    /\ Last.page[Len(Last.page)].due_date # None

\* what the sort does keep: the result is a permutation of its input, the
\* dated tasks are ordered in the direction asked for, and ascending puts
\* the tasks without due date last
DueDateSortKept ==
    (HasLast /\ Last.op = "sort") =>
        /\ ExactlyOnce(PageIds(Last), DOMAIN Last.before)
        /\ DueDateSort(Last, "asc") =>
              NullsLast(Last.page) /\ DatedAscending(Last.page)
        /\ DueDateSort(Last, "desc") => DatedDescending(Last.page)

\* GET /{U}/tasks/stats sent with U's valid token
OwnStatsRequest(e) ==
    /\ e.layer = "http"
    /\ e.args.method = "GET"
    /\ Len(e.args.path) = 3
    /\ e.args.path[3] = LitSeg("stats")
    /\ ValidBearer(e.args.authorization)
    /\ e.args.authorization.sub = e.owner
    /\ e.owner \in Users

\* the counts over the active tasks of user in store
StatsOf(store, user) ==
    LET active == {id \in DOMAIN store :
                      store[id].user_id = user /\ store[id].deleted_at = None}
    IN [total |-> Cardinality(active),
        completed |-> Cardinality({id \in active : store[id].is_completed}),
        pending |-> Cardinality({id \in active : ~store[id].is_completed})]

\* C14: GET /{U}/tasks/stats with U's token is answered 200 with the
\* number of U's active tasks as total, the number of completed ones as
\* completed and the number of the others as pending.
C14_StatsConsistency ==
    (HasLast /\ OwnStatsRequest(Last)) =>
        /\ Last.status = 200
        /\ Last.stats = StatsOf(Last.before, Last.owner)

\* the stats request of a user with one pending task is routed to
\* get_user_task, whose task_id "stats" is no UUID
C14_Witness ==
    /\ HasLast
    /\ OwnStatsRequest(Last)
    /\ StatsOf(Last.before, Last.owner) = [total |-> 1, completed |-> 0, pending |-> 1]
    /\ Last.op = "get_user_task"
    /\ Last.status = 422

\* what get_user_task_stats does keep when it is called directly: for a
\* user without active tasks it returns zeros, and whatever it returns is
\* the count over the user's active tasks
StatsWhenServed ==
    (/\ HasLast
     /\ Last.layer = "handler"
     /\ Last.op = "get_user_task_stats"
     /\ Last.caller = Last.owner
     /\ Last.caller \in Users) =>
        /\ Last.status = 200 <=> StatsOf(Last.before, Last.owner).total = 0
        /\ Last.status = 200 => Last.stats = StatsOf(Last.before, Last.owner)
        /\ Last.status # 200 => Last.status = 500

\* C21: no step changes the owner of a stored task: whatever call is made
\* by whichever user, every task stored before and after it has the same
\* user_id (task ids are never given out twice, so this is the user_id the
\* task was created with).
C21_OwnerNeverChanges ==
    [][\A id \in DOMAIN tasks \cap DOMAIN tasks' :
          tasks'[id].user_id = tasks[id].user_id]_vars

\* an update of a task by its owner has been committed
C21_Witness ==
    /\ HasLast
    /\ Updated(Last)
    /\ Last.after[Last.tid].is_completed # Last.before[Last.tid].is_completed
    /\ Last.after[Last.tid].user_id = Last.caller

\* a task id is given out once: every stored id is at most nextId
IdsNotReused == \A id \in DOMAIN tasks : id <= nextId

\* C22: the task create_task stores is owned by the caller whatever
\* user_id the request carries, has version 1 and no deleted_at, and is
\* pending with priority 1 unless the request says otherwise.
C22_CreateAssignsCaller ==
    (HasLast /\ Last.layer = "svc" /\ Last.op = "create_task") =>
        /\ Last.committed
        /\ DOMAIN Last.after = DOMAIN Last.before \cup {Last.tid}
        /\ Last.tid \notin DOMAIN Last.before
        /\ \A id \in DOMAIN Last.before : Last.after[id] = Last.before[id]
        /\ Last.after[Last.tid].user_id = Last.caller
        /\ Last.after[Last.tid].version = 1
        /\ Last.after[Last.tid].deleted_at = None
        /\ Last.after[Last.tid].is_completed =
              IF "is_completed" \in DOMAIN Last.args THEN Last.args.is_completed
              ELSE FALSE
        /\ Last.after[Last.tid].priority =
              IF "priority" \in DOMAIN Last.args THEN Last.args.priority ELSE 1

\* a create whose body names another user and leaves completion and
\* priority out
C22_Witness ==
    /\ HasLast
    /\ Last.layer = "svc"
    /\ Last.op = "create_task"
    /\ Last.args.user_id \in Users \ {Last.caller}
    /\ DOMAIN Last.args = {"title", "user_id"}
    /\ Last.after[Last.tid].user_id = Last.caller

\* a direct call of schedule_reminders_for_task
Planning(e) == e.layer = "notify" /\ e.op = "schedule_reminders_for_task"

\* the task the call is about, when it is stored for that user
PlannedFor(e) ==
    /\ e.tid \in DOMAIN e.before
    /\ e.before[e.tid].user_id = e.caller

\* the text is no JSON object, or it enables reminders with no hours
Malformed(text) ==
    \/ text \in {BrokenSettings, ListSettings}
    \/ text = RemindNoTime

\* the hours before the due date at which the settings ask for a reminder
ReminderHours(text) ==
    IF text = RemindSettings THEN 1 ELSE DefaultReminderHours

\* the settings enable reminders
Enabled(text) == text \in {RemindSettings, RemindDefaultTime, RemindNoTime}

\* C24: schedule_reminders_for_task never raises; it returns False when
\* the task is not stored for that user and when the settings are
\* malformed, True without scheduling when reminders are disabled or the
\* task has no due date, and True when the reminder time (due date minus
\* reminder hours) has passed.  Where the cases overlap the order is:
\* settings that are no JSON object, disabled, no due date, no hours.
C24_PlanningClassifies ==
    (HasLast /\ Planning(Last)) =>
        LET task == Last.before[Last.tid]
            text == task.notification_settings
        IN /\ ~Last.raised
           /\ Last.after = Last.before
           /\ ~PlannedFor(Last) => ~Last.ok
           /\ (PlannedFor(Last) /\ text \in {BrokenSettings, ListSettings}) =>
                 ~Last.ok
           /\ (PlannedFor(Last) /\ ~Malformed(text) /\ ~Enabled(text)) =>
                 Last.ok /\ Last.count = 0
           /\ (/\ PlannedFor(Last)
               /\ text \notin {BrokenSettings, ListSettings}
               /\ task.due_date = None) =>
                 Last.ok /\ Last.count = 0
           /\ (PlannedFor(Last) /\ Malformed(text) /\ task.due_date # None) =>
                 ~Last.ok
           /\ (/\ PlannedFor(Last)
               /\ ~Malformed(text)
               /\ Enabled(text)
               /\ task.due_date # None
               /\ task.due_date - ReminderHours(text) <= Last.at) =>
                 Last.ok /\ Last.count = 0

\* settings that are no JSON text, on a task with a due date: the call
\* returns False
C24_Witness ==
    /\ HasLast
    /\ Planning(Last)
    /\ PlannedFor(Last)
    /\ Last.before[Last.tid].notification_settings = BrokenSettings
    /\ Last.before[Last.tid].due_date # None
    /\ ~Last.raised
    /\ ~Last.ok

\* a reminder is scheduled exactly when the settings are well-formed and
\* enable reminders and the reminder time is still ahead
ScheduledWhenAhead ==
    (HasLast /\ Planning(Last)) =>
        (Last.count = 1 <=>
            /\ PlannedFor(Last)
            /\ ~Malformed(Last.before[Last.tid].notification_settings)
            /\ Enabled(Last.before[Last.tid].notification_settings)
            /\ Last.before[Last.tid].due_date # None
            /\ Last.before[Last.tid].due_date
                  - ReminderHours(Last.before[Last.tid].notification_settings) > Last.at)

\* a create_task or update_task during which planning the reminders failed
PlanningFailed(e) ==
    /\ e.layer = "svc"
    /\ e.op \in {"create_task", "update_task"}
    /\ e.reminder \in {"False", "caught"}

\* C23: when planning the reminders fails during create_task or
\* update_task, the change is committed and the call returns the created
\* or updated task, not an error.
C23_PlanningIsBestEffort ==
    (HasLast /\ PlanningFailed(Last)) =>
        /\ Last.committed
        /\ Last.tid \in DOMAIN Last.after
        /\ ~Last.raised
        /\ Found(Last.ret)
        /\ Last.ret.id = Last.tid

\* an update that completes a task whose settings are no JSON text: the
\* change is stored, planning gave False, and the call raises
C23_Witness ==
    /\ HasLast
    /\ PlanningFailed(Last)
    /\ Last.op = "update_task"
    /\ Last.before[Last.tid].notification_settings = BrokenSettings
    /\ ~Last.before[Last.tid].is_completed
    /\ Last.after[Last.tid].is_completed
    /\ Last.raised

\* what does hold: planning runs after the commit only, and its failure
\* leaves the committed change stored
CommitSurvivesPlanning ==
    (HasLast /\ Last.layer = "svc" /\ Last.op \in {"create_task", "update_task"}) =>
        /\ Last.reminder # "not called" <=> Last.committed
        /\ PlanningFailed(Last) =>
              /\ Last.tid \in DOMAIN Last.after
              /\ \A f \in DOMAIN Last.args \cap UpdateFields :
                    Last.after[Last.tid][f] = Last.args[f]

----------------------------------------------------------------------------
(* Rate limiter *)

IsRateCall(e) == e.layer = "rate"

\* the calls before call i of the history that were made for the same key
\* no longer than one window before it and were allowed
AdmittedInWindow(i) ==
    {j \in 1..(i - 1) :
        /\ log[j].key = log[i].key
        /\ log[j].allowed
        /\ log[j].at >= log[i].at - LimitOf(log[i].path).window}

\* C25: a request is allowed exactly when fewer than N requests for its
\* key were admitted during the window before it, so from an empty window
\* N requests within the window are allowed and the next one is denied,
\* with remaining = 0.
C25_AdmitsUpToLimit ==
    \A i \in 1..Len(log) :
        IsRateCall(log[i]) =>
            LET admitted == Cardinality(AdmittedInWindow(i))
                N == LimitOf(log[i].path).requests
            IN /\ log[i].allowed <=> admitted < N
               /\ log[i].allowed => log[i].info.remaining = N - admitted - 1
               /\ ~log[i].allowed => log[i].info.remaining = 0
               /\ log[i].info.limit = N

\* N requests of one client from an empty window, the last of them at the
\* end of the window, are allowed and the next is denied
C25_Witness ==
    /\ Len(log) = LimitOf(RegisterPath).requests + 1
    /\ \A i \in 1..Len(log) : IsRateCall(log[i]) /\ log[i].key = log[1].key
    /\ log[1].at = 0
    /\ log[Len(log)].at = LimitOf(RegisterPath).window
    /\ \A i \in 1..(Len(log) - 1) : log[i].allowed
    /\ ~log[Len(log)].allowed
    /\ log[Len(log)].info.remaining = 0

\* C26: when every timestamp recorded for the key is older than now minus
\* the window, the request is allowed.
C26_AllowedAfterWindow ==
    (HasLast /\ IsRateCall(Last)) =>
        ((\A ts \in Range(Queue(Last.before, Last.key)) :
              ts < Last.at - LimitOf(Last.path).window) => Last.allowed)

\* a key that was denied is allowed once its window has passed
C26_Witness ==
    /\ HasLast
    /\ IsRateCall(Last)
    /\ Len(Queue(Last.before, Last.key)) = LimitOf(Last.path).requests
    /\ \E j \in 1..(Len(log) - 1) : log[j].key = Last.key /\ ~log[j].allowed
    /\ Last.at > LimitOf(Last.path).window
    /\ Last.allowed

\* the timestamps of a queue that are not older than the window at time at
InWindow(queue, at, window) == SelectSeq(queue, LAMBDA ts : ts >= at - window)

\* C27: an allowed request adds exactly its own timestamp to the queue of
\* its key, a denied one adds none, either leaves every other key alone,
\* and a denied request following a denied request for the same key
\* reports the same reset time.
C27_DenyRecordsNothing ==
    /\ (HasLast /\ IsRateCall(Last)) =>
          LET kept == InWindow(Queue(Last.before, Last.key), Last.at,
                               LimitOf(Last.path).window)
          IN /\ Last.allowed => Queue(Last.after, Last.key) = Append(kept, Last.at)
             /\ ~Last.allowed => Queue(Last.after, Last.key) = kept
             /\ \A k \in DOMAIN Last.before \ {Last.key} :
                   Queue(Last.after, k) = Queue(Last.before, k)
    /\ \A i, j \in 1..Len(log) :
          (/\ i < j
           /\ IsRateCall(log[i])
           /\ IsRateCall(log[j])
           /\ log[i].key = log[j].key
           /\ ~log[i].allowed
           /\ ~log[j].allowed
           /\ \A m \in (i + 1)..(j - 1) : log[m].key = log[i].key => ~log[m].allowed) =>
              log[j].info.reset_time = log[i].info.reset_time

\* two denied requests for one key, the second later than the first
C27_Witness ==
    /\ Len(log) = RateCalls
    /\ IsRateCall(Last)
    /\ ~Last.allowed
    /\ ~log[Len(log) - 1].allowed
    /\ log[Len(log) - 1].key = Last.key
    /\ log[Len(log) - 1].at < Last.at
    /\ Queue(Last.after, Last.key) = Queue(log[Len(log) - 1].before, Last.key)

\* the two paths differ in nothing but their UUID segments
SameButUuids(p, q) ==
    /\ Len(p) = Len(q)
    /\ \A i \in 1..Len(p) :
          \/ p[i].uuid # "no" /\ q[i].uuid # "no"
          \/ p[i] = q[i]

\* C28: two requests of one client whose paths differ only in their UUID
\* segments fall under one endpoint pattern and one counter: the second
\* finds the first one counted.
C28_OneBucketPerPattern ==
    (/\ Len(log) = 2
     /\ IsRateCall(log[1])
     /\ IsRateCall(log[2])
     /\ log[1].ip = log[2].ip
     /\ SameButUuids(log[1].path, log[2].path)) =>
        /\ log[1].key = log[2].key
        /\ log[2].info.remaining = log[1].info.remaining - 1

\* the same user's task list requested with the UUID in lower case and
\* then in upper case: two keys, and the second request counts from the
\* full limit again
C28_Witness ==
    /\ Len(log) = 2
    /\ IsRateCall(log[1])
    /\ IsRateCall(log[2])
    /\ log[1].ip = log[2].ip
    /\ log[1].path = <<Word("api"), LowerUuid(1), Word("tasks")>>
    /\ log[2].path = <<Word("api"), UpperUuid(1), Word("tasks")>>
    /\ log[1].key # log[2].key
    /\ log[2].info.remaining = log[2].info.limit - 1

\* what does hold: paths whose UUIDs are all written in lower case share
\* the pattern and the counter
LowerCaseSharesBucket ==
    (/\ Len(log) = 2
     /\ IsRateCall(log[1])
     /\ IsRateCall(log[2])
     /\ log[1].ip = log[2].ip
     /\ SameButUuids(log[1].path, log[2].path)
     /\ \A i \in 1..Len(log[1].path) :
           log[1].path[i].uuid # "upper" /\ log[2].path[i].uuid # "upper") =>
        /\ log[1].key = log[2].key
        /\ log[2].info.remaining = log[1].info.remaining - 1

\* the requests that were admitted for a key
Admitted(key) ==
    {i \in 1..Len(inflight) :
        /\ inflight[i].allowed
        /\ <<inflight[i].ip, get_endpoint_pattern(inflight[i].path)>> = key}

\* how often the timestamp ts stands in the queue
Occurrences(queue, ts) == Cardinality({n \in 1..Len(queue) : queue[n] = ts})

----------------------------------------------------------------------------
(* Token validation *)

IsTokenCall(e) == e.layer = "token"

Signed(token) == token.alg = "HS256" /\ token.key = BETTER_AUTH_SECRET

HasIdentity(token) ==
    token.sub # NoneS /\ token.email # NoneS /\ uuid_UUID(token.sub).ok

ExpiryPassed(token, at) == token.exp # None /\ token.exp <= at

\* what the claim says of one validation
MeetsTokenContract(e) ==
    /\ e.result.accepted =>
          Signed(e.token) /\ HasIdentity(e.token) /\ ~ExpiryPassed(e.token, e.at)
    /\ ~e.result.accepted => e.result.status = 401
    /\ ~Signed(e.token) => e.result.kind = "invalid"
    /\ (Signed(e.token) /\ ExpiryPassed(e.token, e.at)) => e.result.kind = "expired"
    /\ (Signed(e.token) /\ ~ExpiryPassed(e.token, e.at) /\ ~HasIdentity(e.token)) =>
          e.result.kind = "invalid"

\* C30: a validator accepts a token only if it is signed with the shared
\* secret under HS256, carries sub and email, its sub is a well-formed
\* UUID and its expiry has not passed; a token that fails signature,
\* algorithm or claims is rejected as invalid, one whose expiry has passed
\* as expired, each with 401.
C30_TokenValidation ==
    (HasLast /\ IsTokenCall(Last)) => MeetsTokenContract(Last)

\* JWTBearer accepts a well-signed token in force that names no subject
C30_Witness ==
    /\ HasLast
    /\ IsTokenCall(Last)
    /\ Last.op = "JWTBearer"
    /\ Signed(Last.token)
    /\ ~ExpiryPassed(Last.token, Last.at)
    /\ Last.token.sub = NoneS
    /\ Last.result.accepted
    /\ Last.result.user_id = NoneS

\* what does hold: validate_and_decode_token meets the whole of it
ValidateAndDecodeMeetsContract ==
    (HasLast /\ IsTokenCall(Last) /\ Last.op = "validate_and_decode_token") =>
        MeetsTokenContract(Last)

\* and JWTBearer lets no token through that is unsigned or out of date,
\* answering 401 to each
JWTBearerChecksSignatureAndExpiry ==
    (HasLast /\ IsTokenCall(Last) /\ Last.op = "JWTBearer") =>
        /\ Last.result.accepted =>
              Signed(Last.token) /\ ~ExpiryPassed(Last.token, Last.at)
        /\ ~Last.result.accepted => Last.result.status = 401

----------------------------------------------------------------------------
(* Login *)

IsLogin(e) == e.layer = "auth"

UnknownEmail(e) == \A id \in DOMAIN e.before : e.before[id].email # e.email

WrongPassword(e) ==
    \E id \in DOMAIN e.before :
        /\ e.before[id].email = e.email
        /\ ~verify_password(e.password, e.before[id].hashed_password)

\* C31: a login attempt for an unknown email compares a password hash and
\* returns None, and goes through the same steps as an attempt by the same
\* function for a known email with a wrong password.
C31_SameStepsForUnknownEmail ==
    /\ \A i \in 1..Len(log) :
          (IsLogin(log[i]) /\ UnknownEmail(log[i])) =>
              /\ log[i].raised = NoneS
              /\ log[i].user = NoUser
              /\ \E n \in 1..Len(log[i].steps) : log[i].steps[n] = "verify_password"
    /\ \A i, j \in 1..Len(log) :
          (/\ IsLogin(log[i])
           /\ IsLogin(log[j])
           /\ log[i].op = log[j].op
           /\ UnknownEmail(log[i])
           /\ WrongPassword(log[j])) =>
              log[i].steps = log[j].steps /\ log[i].user = log[j].user

\* UserService.authenticate_user is asked for an unknown email and then
\* for a known one with a wrong password: only the second compares a hash
C31_Witness ==
    /\ Len(log) = 2
    /\ \A i \in 1..2 : IsLogin(log[i]) /\ log[i].op = "UserService.authenticate_user"
    /\ UnknownEmail(log[1])
    /\ WrongPassword(log[2])
    /\ log[1].user = NoUser
    /\ log[2].user = NoUser
    /\ log[1].steps = <<"get_user_by_email">>
    /\ log[2].steps = <<"get_user_by_email", "verify_password">>

\* what does hold: UserService.authenticate_user returns a user only for
\* a stored email with its password, and None otherwise
LoginOnlyWithPassword ==
    \A i \in 1..Len(log) :
        (IsLogin(log[i]) /\ log[i].op = "UserService.authenticate_user") =>
            /\ log[i].raised = NoneS
            /\ log[i].user # NoUser <=>
                  (~UnknownEmail(log[i]) /\ ~WrongPassword(log[i]))

----------------------------------------------------------------------------
(* Registration *)

\* no two stored users share an email
EmailUnique ==
    \A a, b \in DOMAIN users : a # b => users[a].email # users[b].email

\* C32: however register requests for one email interleave, at most one
\* user with that email is stored, and each request that stored none has
\* failed with the duplicate-email error (400), as a sequential duplicate
\* does.
C32_RacingRegistrations ==
    /\ EmailUnique
    /\ \A i \in 1..Len(inflight) :
          (inflight[i].pc = "done" /\ inflight[i].status # 200) =>
              /\ inflight[i].status = 400
              /\ inflight[i].detail = "Email already registered"

\* two requests for a new email both passed the lookup; the first commit
\* stored the user, the second ended in the error of the index
C32_Witness ==
    /\ Len(inflight) >= 2
    /\ inflight[1].email = inflight[2].email
    /\ inflight[1].pc = "done"
    /\ inflight[1].status = 200
    /\ inflight[2].pc = "done"
    /\ inflight[2].status = 500
    /\ inflight[2].detail = "IntegrityError"
    /\ Cardinality({id \in DOMAIN users : users[id].email = inflight[1].email}) = 1

\* what does hold: the email stays unique, and a request whose lookup
\* finds the email is answered 400
DuplicateSeenIsRejected ==
    /\ EmailUnique
    /\ \A i \in 1..Len(inflight) :
          inflight[i].status = 200 =>
              \E id \in DOMAIN users : users[id].email = inflight[i].email
    /\ \A i \in 1..Len(inflight) :
          inflight[i].status = 400 =>
              \E id \in DOMAIN users : users[id].email = inflight[i].email

----------------------------------------------------------------------------
(* Storage failures *)

\* a call during which a session call raised
SessionFailed(e) ==
    /\ e.layer = "svc"
    /\ e.op \in FailingMethods
    /\ "failed" \in DOMAIN e.args
    /\ e.args.failed

FailedCallStoresAllOrNothing ==
    (HasLast /\ SessionFailed(Last)) =>
        /\ Last.args.call \in {"execute", "commit"} => Last.after = Last.before
        /\ Last.args.call = "refresh" =>
              Last.after = Healthy(Last.op, Last.before, Last.tid, Last.args.body,
                                   Last.caller, Last.at).store

----------------------------------------------------------------------------
(* Concurrent toggles *)

\* the toggle requests for a task that found it
TogglesOf(tid) ==
    {i \in 1..Len(inflight) : inflight[i].tid = tid /\ inflight[i].found}

AllDone == \A i \in 1..Len(inflight) : inflight[i].pc = "done"

\* C34: when all toggle requests have completed, the flag of each task is
\* its original value after an even number of toggles of it and the
\* negation after an odd number, whatever the interleaving.
C34_NoToggleLost ==
    AllDone =>
        \A tid \in DOMAIN tasks :
            tasks[tid].is_completed =
                IF Cardinality(TogglesOf(tid)) % 2 = 0
                THEN log[1].before[tid].is_completed
                ELSE ~log[1].before[tid].is_completed

\* two requests read the same flag before either committed: after both
\* the flag is negated once
C34_Witness ==
    /\ AllDone
    /\ Len(inflight) = 2
    /\ inflight[1].tid = inflight[2].tid
    /\ inflight[1].found
    /\ inflight[2].found
    /\ inflight[1].seen = inflight[2].seen
    /\ tasks[inflight[1].tid].is_completed = ~log[1].before[inflight[1].tid].is_completed

\* what does hold: a toggle that runs alone negates the flag, and no
\* toggle changes anything but the flag of its own task
LoneToggleNegates ==
    /\ (AllDone /\ Len(inflight) = 1) =>
          \A tid \in DOMAIN tasks :
              tasks[tid].is_completed =
                  IF TogglesOf(tid) = {} THEN log[1].before[tid].is_completed
                  ELSE ~log[1].before[tid].is_completed
    /\ \A tid \in DOMAIN tasks :
          [tasks[tid] EXCEPT !.is_completed = FALSE]
             = [log[1].before[tid] EXCEPT !.is_completed = FALSE]

----------------------------------------------------------------------------
(* Sliding window *)

\* C35: after every is_allowed call the queue of its key holds no
\* timestamp older than now minus the window and at most limit
\* timestamps; the calls admitted for the key during the window that ends
\* with the call are at most limit; an Allow reports remaining = limit
\* minus the entries now in the window, which is not negative; a Deny
\* reports a retry_after that is not negative.
C35_SlidingWindow ==
    \A i \in 1..Len(log) :
        IsRateCall(log[i]) =>
            LET limit_config == LimitOf(log[i].path)
                queue == Queue(log[i].after, log[i].key)
                admitted == Cardinality(AdmittedInWindow(i))
                             + (IF log[i].allowed THEN 1 ELSE 0)
            IN /\ \A ts \in Range(queue) : ts >= log[i].at - limit_config.window
               /\ Len(queue) <= limit_config.requests
               /\ admitted <= limit_config.requests
               /\ log[i].allowed =>
                     /\ log[i].info.remaining = limit_config.requests - Len(queue)
                     /\ log[i].info.remaining >= 0
               /\ ~log[i].allowed => log[i].info.retry_after >= 0

\* a key is filled, is denied at the last instant of its window with
\* nothing to wait, and after the window its old entries are evicted and
\* the request is the only one in the queue
C35_Witness ==
    /\ Len(log) = RateCalls
    /\ \A i \in 1..Len(log) : IsRateCall(log[i]) /\ log[i].key = log[1].key
    /\ log[1].at = 0
    /\ log[2].at = 0
    /\ ~log[3].allowed
    /\ log[3].info.retry_after = 0
    /\ Last.allowed
    /\ Queue(Last.after, Last.key) = <<Last.at>>
    /\ Last.info.remaining = LimitOf(Last.path).requests - 1

----------------------------------------------------------------------------
(* Active and deleted listings *)

\* get_tasks without filters, or get_deleted_tasks, by a user, with skip 0
\* and a limit no smaller than the table
WholeListing(e, op) ==
    /\ e.layer = "svc"
    /\ e.op = op
    /\ e.caller \in Users
    /\ e.args = DefaultQuery

OwnDeleted(e) ==
    {id \in DOMAIN e.before :
        /\ e.before[id].user_id = e.caller
        /\ e.before[id].deleted_at # None}

\* C36: get_tasks returns each active task of the caller exactly once and
\* nothing else, get_deleted_tasks each soft-deleted task of the caller
\* exactly once and nothing else, so every task of the caller is in
\* exactly one of the two listings and no task of another user in either.
C36_ListingsPartition ==
    /\ (HasLast /\ WholeListing(Last, "get_tasks")) =>
          ~Last.raised /\ ExactlyOnce(PageIds(Last), OwnActive(Last))
    /\ (HasLast /\ WholeListing(Last, "get_deleted_tasks")) =>
          ~Last.raised /\ ExactlyOnce(PageIds(Last), OwnDeleted(Last))

\* the caller has an active task and no listing is returned for it
C36_Witness ==
    /\ HasLast
    /\ WholeListing(Last, "get_tasks")
    /\ OwnActive(Last) # {}
    /\ Range(Last.rows) = OwnActive(Last)
    /\ Last.raised
    /\ Last.page = <<>>

\* what does hold: the rows the two queries select are the caller's active
\* and the caller's soft-deleted tasks, each once, and the calls return
\* them when they select none
SelectionsPartition ==
    /\ (HasLast /\ WholeListing(Last, "get_tasks")) =>
          /\ ExactlyOnce(Last.rows, OwnActive(Last))
          /\ Last.rows = <<>> => ~Last.raised /\ Last.page = <<>>
    /\ (HasLast /\ WholeListing(Last, "get_deleted_tasks")) =>
          /\ ExactlyOnce(Last.rows, OwnDeleted(Last))
          /\ Last.rows = <<>> => ~Last.raised /\ Last.page = <<>>

----------------------------------------------------------------------------
(* Cache *)

IsCacheCall(e, op) == e.layer = "cache" /\ e.op = op

\* the calls before call i that set the key of call i
SetsBefore(i) ==
    {j \in 1..(i - 1) : IsCacheCall(log[j], "set") /\ log[j].key = log[i].key}

LastSetBefore(i) == CHOOSE j \in SetsBefore(i) : \A m \in SetsBefore(i) : m <= j

\* the key of call i was removed by a call after call j
RemovedBetween(j, i) ==
    \E m \in (j + 1)..(i - 1) :
        \/ IsCacheCall(log[m], "delete") /\ log[m].key = log[i].key
        \/ IsCacheCall(log[m], "clear")
        \/ IsCacheCall(log[m], "invalidate_pattern") /\ IsSubstring(log[m].pattern, log[i].key)

\* the ttl a set asks for
TtlOf(e) == IF e.ttl = None THEN default_ttl ELSE e.ttl

\* C37: get(key) returns the value of the most recent set of the key when
\* the key was not removed since by delete, clear or a matching
\* invalidate_pattern and fewer than ttl seconds (default_ttl without ttl)
\* have passed since that set; otherwise it returns None, and an entry it
\* finds expired is gone afterwards.
C37_CacheReadSemantics ==
    \A i \in 1..Len(log) :
        IsCacheCall(log[i], "get") =>
            IF SetsBefore(i) = {} THEN log[i].ret = PyNone
            ELSE LET j == LastSetBefore(i)
                     live == /\ ~RemovedBetween(j, i)
                             /\ log[i].at - log[j].at < TtlOf(log[j])
                 IN /\ live => log[i].ret = log[j].value
                    /\ ~live => log[i].ret = PyNone
                    /\ (~RemovedBetween(j, i) /\ ~live) => log[i].key \notin DOMAIN log[i].after

\* a value set with ttl=0 is read back a second later
C37_Witness ==
    /\ Len(log) = 2
    /\ IsCacheCall(log[1], "set")
    /\ log[1].ttl = 0
    /\ log[1].value = PyInt
    /\ IsCacheCall(log[2], "get")
    /\ log[2].key = log[1].key
    /\ log[2].at > log[1].at
    /\ log[2].ret = PyInt

\* what does hold: with the ttl that set applies (the default also for
\* ttl=0), get returns what json.loads reads from the text of the most
\* recent set while the key is not removed and at most ttl seconds have
\* passed, and None otherwise; an entry found expired is removed
CacheReadsStoredText ==
    \A i \in 1..Len(log) :
        IsCacheCall(log[i], "get") =>
            IF SetsBefore(i) = {} THEN log[i].ret = PyNone
            ELSE LET j == LastSetBefore(i)
                     applied == IF log[j].ttl \in {None, 0} THEN default_ttl ELSE log[j].ttl
                     live == /\ ~RemovedBetween(j, i)
                             /\ log[i].at - log[j].at <= applied
                 IN /\ live => log[i].ret = loads(dumps(log[j].value))
                    /\ ~live => log[i].ret = PyNone
                    /\ log[i].ret = PyNone \/ log[i].key \in DOMAIN log[i].after
                    /\ ~live => log[i].key \notin DOMAIN log[i].after

----------------------------------------------------------------------------
(* The cached decorator *)

IsCachedCall(e) == e.layer = "cached"

\* the earlier calls with the arguments of call i that invoked the function
InvocationsBefore(i) ==
    {j \in 1..(i - 1) : IsCachedCall(log[j]) /\ log[j].args = log[i].args /\ log[j].invoked}

\* C38: a call with the arguments of an earlier call, made before the
\* entry of that call's invocation expires, does not invoke the function
\* and returns that invocation's result; a call with arguments not seen
\* before invokes the function.
C38_CachedInvokesOnce ==
    \A i \in 1..Len(log) :
        IsCachedCall(log[i]) =>
            /\ \A j \in InvocationsBefore(i) :
                  (/\ \A m \in InvocationsBefore(i) : m <= j
                   /\ log[i].at - log[j].at < CachedTtl) =>
                      ~log[i].invoked /\ log[i].ret = log[j].ret
            /\ (\A j \in 1..(i - 1) : log[j].args # log[i].args) => log[i].invoked

\* the function returned None; the same call a moment later invokes it
\* again
C38_Witness ==
    /\ Len(log) >= 2
    /\ IsCachedCall(log[1])
    /\ IsCachedCall(log[2])
    /\ log[1].args = log[2].args
    /\ log[1].invoked
    /\ log[1].ret = PyNone
    /\ log[2].at = log[1].at
    /\ log[2].invoked

\* what does hold: while the entry lives, a function that returned
\* something other than None is not invoked again for the same
\* arguments, and the call returns what JSON keeps of the result
CachedHitsForJsonValues ==
    \A i \in 1..Len(log) :
        IsCachedCall(log[i]) =>
            /\ \A j \in InvocationsBefore(i) :
                  (/\ \A m \in InvocationsBefore(i) : m <= j
                   /\ log[i].at - log[j].at <= CachedTtl
                   /\ log[j].ret # PyNone) =>
                      ~log[i].invoked /\ log[i].ret = loads(dumps(log[j].ret))
            /\ (\A j \in 1..(i - 1) : log[j].args # log[i].args) => log[i].invoked

----------------------------------------------------------------------------
(* Rate limit queries *)

IsInfoCall(e) == e.layer = "rate" /\ e.op = "get_rate_limit_info"

AllRateKeys == {<<ip, get_endpoint_pattern(RegisterPath)>> : ip \in Clients}

\* C39: get_rate_limit_info leaves the recorded timestamps of every key
\* as they were.
C39_InfoLeavesTimestamps ==
    \A i \in 1..Len(log) :
        IsInfoCall(log[i]) =>
            \A key \in AllRateKeys : Queue(log[i].after, key) = Queue(log[i].before, key)

\* the is_allowed calls of a key before call i that are still inside the
\* window at call i
RequestsInWindow(i) ==
    {j \in 1..(i - 1) :
        /\ log[j].layer = "rate"
        /\ log[j].op = "is_allowed"
        /\ log[j].key = log[i].key
        /\ log[j].at >= log[i].at - LimitOf(log[i].path).window}

\* a request is denied although fewer requests than the limit were made
\* in its window: queries took the rest of the quota
C39_Witness ==
    /\ log # <<>>
    /\ Last.layer = "rate"
    /\ Last.op = "is_allowed"
    /\ ~Last.allowed
    /\ Cardinality(RequestsInWindow(Len(log))) < LimitOf(Last.path).requests
    /\ \E j \in 1..(Len(log) - 1) :
          /\ IsInfoCall(log[j])
          /\ log[j].key = Last.key
          /\ Len(Queue(log[j].after, log[j].key)) = Len(Queue(log[j].before, log[j].key)) + 1

\* what does hold: a query touches no key but its own, and for a client
\* whose quota is used up it only drops the timestamps that left the
\* window
InfoOfExhaustedClientAddsNothing ==
    \A i \in 1..Len(log) :
        IsInfoCall(log[i]) =>
            /\ \A key \in AllRateKeys \ {log[i].key} :
                  Queue(log[i].after, key) = Queue(log[i].before, key)
            /\ ~log[i].allowed =>
                  Queue(log[i].after, log[i].key) =
                      DropOld(Queue(log[i].before, log[i].key),
                              log[i].at - LimitOf(log[i].path).window)

====
